---------------------------- MODULE Spec2Model ----------------------------
(***************************************************************************)
(* Model of the Emperor backend's coordination core:                       *)
(*   - the Event Bus (process_manager/event_bus.py),                       *)
(*   - the agent communication helpers built on publish_and_wait           *)
(*     (process_manager/agent_comm.py, process_manager/events.py),         *)
(*   - the Permission Manager (permissions/manager.py and its presets,     *)
(*     risk classifier and audit log).                                     *)
(*                                                                         *)
(* The bus is a cooperative asyncio program: between two awaits a          *)
(* coroutine runs atomically, so every action below is one such atomic     *)
(* stretch of one coroutine (a producer, a publish_and_wait caller, the    *)
(* consumer loop, one handler task).                                       *)
(***************************************************************************)
EXTENDS Naturals, Integers, Sequences, FiniteSets, TLC

(***************************************************************************)
(* Bounds of the model.                                                    *)
(***************************************************************************)
MaxQueue == 2        \* max_queue_size given to EventBus(...)
HistorySize == 2     \* history_size given to EventBus(...)
MaxEvents == 5       \* events created in one run
MaxSubs == 2         \* subscribe() calls in one run
MaxMiddleware == 2   \* middleware installed with use()
MaxUiEvents == 3     \* events dispatched to the UI streamer in one run
MaxUiClock == 2      \* milliseconds of the streamer's clock
MaxCalls == 2        \* delegate_to_lead / assign_to_worker calls in one run

(***************************************************************************)
(* Strings.  TLC treats a string as an atom; the code looks inside strings *)
(* (fnmatch on event types, substring tests on source names), so Chars     *)
(* gives the characters of every string the model uses.                    *)
(***************************************************************************)
Chars(s) ==
    CASE s = "*" -> <<"*">>
      [] s = "worker.*" -> <<"w", "o", "r", "k", "e", "r", ".", "*">>
      [] s = "lead.*" -> <<"l", "e", "a", "d", ".", "*">>
      [] s = "*.progress" -> <<"*", ".", "p", "r", "o", "g", "r", "e", "s", "s">>
      [] s = "w?rker.*" -> <<"w", "?", "r", "k", "e", "r", ".", "*">>
      [] s = "orchestrator.delegate" -> <<"o", "r", "c", "h", "e", "s", "t", "r", "a", "t", "o", "r", ".", "d", "e", "l", "e", "g", "a", "t", "e">>
      [] s = "orchestrator.error" -> <<"o", "r", "c", "h", "e", "s", "t", "r", "a", "t", "o", "r", ".", "e", "r", "r", "o", "r">>
      [] s = "lead.assign" -> <<"l", "e", "a", "d", ".", "a", "s", "s", "i", "g", "n">>
      [] s = "lead.progress" -> <<"l", "e", "a", "d", ".", "p", "r", "o", "g", "r", "e", "s", "s">>
      [] s = "lead.complete" -> <<"l", "e", "a", "d", ".", "c", "o", "m", "p", "l", "e", "t", "e">>
      [] s = "lead.error" -> <<"l", "e", "a", "d", ".", "e", "r", "r", "o", "r">>
      [] s = "worker.progress" -> <<"w", "o", "r", "k", "e", "r", ".", "p", "r", "o", "g", "r", "e", "s", "s">>
      [] s = "worker.complete" -> <<"w", "o", "r", "k", "e", "r", ".", "c", "o", "m", "p", "l", "e", "t", "e">>
      [] s = "worker.error" -> <<"w", "o", "r", "k", "e", "r", ".", "e", "r", "r", "o", "r">>
      [] s = "tool.error" -> <<"t", "o", "o", "l", ".", "e", "r", "r", "o", "r">>
      [] s = "system.error" -> <<"s", "y", "s", "t", "e", "m", ".", "e", "r", "r", "o", "r">>
      [] s = "orchestrator" -> <<"o", "r", "c", "h", "e", "s", "t", "r", "a", "t", "o", "r">>
      [] s = "lead" -> <<"l", "e", "a", "d">>
      [] s = "worker" -> <<"w", "o", "r", "k", "e", "r">>
      [] s = "tool" -> <<"t", "o", "o", "l">>
      [] s = "code_lead" -> <<"c", "o", "d", "e", "_", "l", "e", "a", "d">>
      [] s = "Task_Lead" -> <<"T", "a", "s", "k", "_", "L", "e", "a", "d">>
      [] s = "programmer" -> <<"p", "r", "o", "g", "r", "a", "m", "m", "e", "r">>
      [] s = "reviewer" -> <<"r", "e", "v", "i", "e", "w", "e", "r">>
      [] s = "external" -> <<"e", "x", "t", "e", "r", "n", "a", "l">>
      [] s = "/etc/" -> <<"/", "e", "t", "c", "/">>
      [] s = "/var/" -> <<"/", "v", "a", "r", "/">>
      [] s = "sudo" -> <<"s", "u", "d", "o">>
      [] s = "brew" -> <<"b", "r", "e", "w">>
      [] s = "/tmp/a.txt" -> <<"/", "t", "m", "p", "/", "a", ".", "t", "x", "t">>
      [] s = "/etc/passwd" -> <<"/", "e", "t", "c", "/", "p", "a", "s", "s", "w", "d">>
      [] s = "ls" -> <<"l", "s">>
      [] s = "sudo ls" -> <<"s", "u", "d", "o", " ", "l", "s">>
      [] s = "brew list" -> <<"b", "r", "e", "w", " ", "l", "i", "s", "t">>
      [] s = "password" -> <<"p", "a", "s", "s", "w", "o", "r", "d">>
      [] s = "secret" -> <<"s", "e", "c", "r", "e", "t">>
      [] s = "token" -> <<"t", "o", "k", "e", "n">>
      [] s = "key" -> <<"k", "e", "y">>
      [] s = "path" -> <<"p", "a", "t", "h">>
      [] s = "API_KEY" -> <<"A", "P", "I", "_", "K", "E", "Y">>
      [] s = "content" -> <<"c", "o", "n", "t", "e", "n", "t">>
      [] s = "monkey" -> <<"m", "o", "n", "k", "e", "y">>
      [] s = "count" -> <<"c", "o", "u", "n", "t">>
      [] s = "orchestrator.response" -> <<"o", "r", "c", "h", "e", "s", "t", "r", "a", "t", "o", "r", ".", "r", "e", "s", "p", "o", "n", "s", "e">>
      [] s = "lead.received" -> <<"l", "e", "a", "d", ".", "r", "e", "c", "e", "i", "v", "e", "d">>
      [] s = "lead.planning" -> <<"l", "e", "a", "d", ".", "p", "l", "a", "n", "n", "i", "n", "g">>
      [] s = "worker.start" -> <<"w", "o", "r", "k", "e", "r", ".", "s", "t", "a", "r", "t">>
      [] s = "tool.execute" -> <<"t", "o", "o", "l", ".", "e", "x", "e", "c", "u", "t", "e">>
      [] s = "tool.progress" -> <<"t", "o", "o", "l", ".", "p", "r", "o", "g", "r", "e", "s", "s">>
      [] s = "tool.result" -> <<"t", "o", "o", "l", ".", "r", "e", "s", "u", "l", "t">>
      [] s = "approval.request" -> <<"a", "p", "p", "r", "o", "v", "a", "l", ".", "r", "e", "q", "u", "e", "s", "t">>
      [] s = "approval.granted" -> <<"a", "p", "p", "r", "o", "v", "a", "l", ".", "g", "r", "a", "n", "t", "e", "d">>
      [] s = "approval.denied" -> <<"a", "p", "p", "r", "o", "v", "a", "l", ".", "d", "e", "n", "i", "e", "d">>
      [] s = "approval.timeout" -> <<"a", "p", "p", "r", "o", "v", "a", "l", ".", "t", "i", "m", "e", "o", "u", "t">>
      [] s = "agent.started" -> <<"a", "g", "e", "n", "t", ".", "s", "t", "a", "r", "t", "e", "d">>
      [] s = "agent.idle" -> <<"a", "g", "e", "n", "t", ".", "i", "d", "l", "e">>
      [] s = "agent.busy" -> <<"a", "g", "e", "n", "t", ".", "b", "u", "s", "y">>
      [] s = "agent.stopped" -> <<"a", "g", "e", "n", "t", ".", "s", "t", "o", "p", "p", "e", "d">>
      [] s = "memory.store" -> <<"m", "e", "m", "o", "r", "y", ".", "s", "t", "o", "r", "e">>
      [] s = "memory.recall" -> <<"m", "e", "m", "o", "r", "y", ".", "r", "e", "c", "a", "l", "l">>
      [] s = "memory.forget" -> <<"m", "e", "m", "o", "r", "y", ".", "f", "o", "r", "g", "e", "t">>
      [] s = "system.startup" -> <<"s", "y", "s", "t", "e", "m", ".", "s", "t", "a", "r", "t", "u", "p">>
      [] s = "system.shutdown" -> <<"s", "y", "s", "t", "e", "m", ".", "s", "h", "u", "t", "d", "o", "w", "n">>
      [] s = "" -> <<>>

\* str.lower() on one character (the upper-case letters the model uses).
LowerChar(c) ==
    CASE c = "T" -> "t"
      [] c = "L" -> "l"
      [] c = "A" -> "a"
      [] c = "P" -> "p"
      [] c = "I" -> "i"
      [] c = "K" -> "k"
      [] c = "E" -> "e"
      [] c = "Y" -> "y"
      [] OTHER -> c

\* str.lower()
Lower(cs) == [i \in 1..Len(cs) |-> LowerChar(cs[i])]

\* `sub in s` on character sequences
Contains(sub, cs) ==
    \E k \in 0..(Len(cs) - Len(sub)) :
        \A i \in 1..Len(sub) : cs[k + i] = sub[i]

\* fnmatch.fnmatchcase(t, p) from position i of p and j of t: `*` matches any
\* run of characters, `?` one character, everything else itself; the whole
\* of t must be matched.
RECURSIVE GlobFrom(_, _, _, _)
GlobFrom(p, i, t, j) ==
    IF i > Len(p) THEN j > Len(t)
    ELSE IF p[i] = "*"
         THEN GlobFrom(p, i + 1, t, j) \/ (j <= Len(t) /\ GlobFrom(p, i, t, j + 1))
         ELSE /\ j <= Len(t)
              /\ (p[i] = "?" \/ p[i] = t[j])
              /\ GlobFrom(p, i + 1, t, j + 1)

fnmatch(t, p) == GlobFrom(Chars(p), 1, Chars(t), 1)

\* Subscription.matches without the fnmatch fallback: "*" and the exact
\* type only.
MatchesExactOnly(pattern, event_type) ==
    \/ pattern = "*"
    \/ pattern = event_type

\* Subscription.matches
Matches(pattern, event_type) ==
    \/ pattern = "*"
    \/ pattern = event_type
    \/ fnmatch(event_type, pattern)

(***************************************************************************)
(* Events.                                                                 *)
(***************************************************************************)
NoCid == 0                  \* correlation_id = None
Absent == "<absent>"        \* a key that is not in event.data
NoEvent == [id |-> 0, type |-> "<none>", source |-> "<none>", cid |-> NoCid,
            result |-> Absent, error |-> Absent]

\* Event(type=..., source=..., data={...}, correlation_id=...); of data the
\* model keeps the two keys the callers read, "result" and "error".
Event(id, type, source, cid, result, error) ==
    [id |-> id, type |-> type, source |-> source, cid |-> cid,
     result |-> result, error |-> error]

\* create_error_event: the type follows from the source's name.
ErrorEventType(source) ==
    LET low == Lower(Chars(source)) IN
    IF Contains(Chars("orchestrator"), low) THEN "orchestrator.error"
    ELSE IF Contains(Chars("lead"), low) THEN "lead.error"
    ELSE IF Contains(Chars("worker"), low) THEN "worker.error"
    ELSE IF Contains(Chars("tool"), low) THEN "tool.error"
    ELSE "system.error"

create_error_event(id, error, source, cid) ==
    Event(id, ErrorEventType(source), source, cid, Absent, error)

(***************************************************************************)
(* State of the event bus.                                                 *)
(***************************************************************************)
VARIABLES
    subs,        \* _subscriptions: set of [id, pattern, handler]
    nextSub,     \* subscriptions created so far
    middleware,  \* _middleware: sequence of middleware kinds
    queue,       \* _queue: sequence of events
    putters,     \* publishers suspended in queue.put on a full queue:
                 \* sequence of [ev, owner]
    history,     \* _history: deque(maxlen=history_size)
    pending,     \* _pending_responses: correlation id -> [call, types]
    futs,        \* the future of each publish_and_wait call: [st, ev]
    running,     \* _running
    stats,       \* _stats
    loop,        \* the consumer task: "none", "get", "dispatch", "exited"
    cur,         \* the event being dispatched
    curSubs,     \* the subscriptions whose handlers _dispatch gathered
    todo,        \* handler tasks of the current dispatch not yet run
    calls,       \* the delegate_to_lead / assign_to_worker calls
    nextId,      \* events created so far
    enqLog,      \* history variable: ids in the order they entered the queue
    dispLog,     \* history variable: the events the loop dispatched, in order
    dropLog,     \* history variable: the events publish dropped
    invoked,     \* history variable: <<event id, subscription id>> handler runs
    matched,     \* history variable: <<event id, subscription id>> gathered
    allSubs,     \* history variable: every subscription ever made
    errBase      \* history variable: stats.errors when the dispatch began

busVars == <<subs, nextSub, middleware, queue, putters, history, pending, futs,
             running, stats, loop, cur, curSubs, todo, calls, nextId,
             enqLog, dispLog, dropLog, invoked, matched, allSubs,
             errBase>>

VARIABLES
    config,      \* PermissionManager._config (name "none": not constructed)
    debug,       \* settings.debug
    callback,    \* whether _approval_callback is set
    audit,       \* the rows of the audit_log table, in insertion order
    op,          \* the execute_with_permission / request_approval call
    opCount      \* calls made so far

permVars == <<config, debug, callback, audit, op, opCount>>

VARIABLES
    stopper      \* the coroutine running EventBus.stop: [pc, enq, via]

VARIABLES
    toolRisk,       \* TOOL_RISK_LEVELS entries set by register_tool_risk
    addedPatterns,  \* patterns appended by add_escalation_pattern, per tool
    classified      \* the last classify call: [tool, input, level]

clsVars == <<toolRisk, addedPatterns, classified>>

VARIABLES
    auditMeta       \* the AuditLog used directly: [calls, now], the log calls
                    \* made and the reading of the clock; given, the
                    \* input_data each log call was handed; stats, the
                    \* outcome of the latest get_statistics call

VARIABLES
    deleg           \* the DelegationManager: active, the keys of
                    \* _active_delegations; d, the delegate calls

VARIABLES
    ui              \* the UIEventStreamer, its RateLimiter and the broadcast
                    \* sink: [subs, now, last_sent, log]

VARIABLES
    chain           \* one entry per event taken for dispatch: [id, mw,
                    \* handlers, calls], the pipeline and the number of
                    \* matching handlers at that moment and the middleware
                    \* invoked for the event, in order

VARIABLES
    awaiting        \* per call, the handler task that awaits it: [sub, ev],
                    \* the subscription and the event being handled (sub 0:
                    \* the call is not made from a handler)

vars == <<busVars, permVars, stopper, clsVars, auditMeta, deleg, ui, chain,
          awaiting>>

CallIds == 1..MaxCalls
CorrIds == 1..MaxCalls      \* the correlation ids in use

NoPending == [call |-> 0, types |-> {}]

NoFut == [st |-> "none", ev |-> NoEvent]
NoResult == [success |-> FALSE, result |-> "<unset>", error |-> "<unset>"]
\* A call: its kind ("lead": delegate_to_lead, "worker": assign_to_worker), its
\* correlation id, where it stands, what publish_and_wait returned to it
\* (NoEvent: None), the result it returned, and two history fields: how its
\* wait ended (response, timeout, exception) and how many events had been
\* dispatched when its timeout ran out.
IdleCall == [kind |-> "none", cid |-> NoCid, pc |-> "idle", resp |-> NoEvent,
             res |-> NoResult, via |-> "", toAt |-> 0]

Bump(st, key) == [st EXCEPT ![key] = @ + 1]

InitBus ==
    /\ subs = {}
    /\ nextSub = 0
    /\ middleware = <<>>
    /\ queue = <<>>
    /\ putters = <<>>
    /\ history = <<>>
    /\ pending = [k \in CorrIds |-> NoPending]
    /\ futs = [c \in CallIds |-> NoFut]
    /\ running = FALSE
    /\ stats = [events_published |-> 0, events_processed |-> 0,
                events_dropped |-> 0, handlers_called |-> 0, errors |-> 0]
    /\ loop = "none"
    /\ cur = NoEvent
    /\ curSubs = {}
    /\ todo = {}
    /\ calls = [c \in CallIds |-> IdleCall]
    /\ nextId = 0
    /\ enqLog = <<>>
    /\ dispLog = <<>>
    /\ dropLog = {}
    /\ invoked = {}
    /\ matched = {}
    /\ allSubs = {}
    /\ errBase = 0

(***************************************************************************)
(* Queue and publish.                                                      *)
(***************************************************************************)
ExtOwner == [kind |-> "ext", idx |-> 0]
CallOwner(c) == [kind |-> "call", idx |-> c]
HandlerOwner(sid) == [kind |-> "handler", idx |-> sid]

QueueFull == Len(queue) >= MaxQueue

\* EventBus.publish up to its first suspension: queue.put(event) returns at
\* once when there is room (events_published += 1); on a full queue the
\* publisher is suspended in wait_for(queue.put(event), 5.0).
publish(ev, owner, st) ==
    IF QueueFull
    THEN /\ putters' = Append(putters, [ev |-> ev, owner |-> owner])
         /\ UNCHANGED <<queue, enqLog>>
         /\ stats' = st
    ELSE /\ queue' = Append(queue, ev)
         /\ enqLog' = Append(enqLog, ev.id)
         /\ stats' = Bump(st, "events_published")
         /\ UNCHANGED putters

RemoveAt(seq, i) == SubSeq(seq, 1, i - 1) \o SubSeq(seq, i + 1, Len(seq))

\* What the owner of a suspended put does once publish() has returned: a
\* caller goes on to wait for its future, a handler task ends normally.
AfterPut(owner, st) ==
    /\ calls' = IF owner.kind = "call"
                THEN [calls EXCEPT ![owner.idx].pc = "waiting"]
                ELSE calls
    /\ stats' = IF owner.kind = "handler" THEN Bump(st, "handlers_called") ELSE st

\* A suspended put completes: the queue has room again.  (asyncio wakes the
\* putters in the order they were suspended, but a woken putter that finds
\* the queue full again queues up behind the others, so the puts complete
\* in an order that need not be the order of suspension.)
PutResume(i) ==
    /\ i \in 1..Len(putters)
    /\ ~QueueFull
    /\ LET p == putters[i] IN
       /\ queue' = Append(queue, p.ev)
       /\ enqLog' = Append(enqLog, p.ev.id)
       /\ putters' = RemoveAt(putters, i)
       /\ AfterPut(p.owner, Bump(stats, "events_published"))
    /\ UNCHANGED <<subs, nextSub, middleware, history, pending, futs, running,
                   loop, cur, curSubs, todo, nextId, dispLog, dropLog, invoked,
                   errBase, matched, allSubs>>

\* A publish that counts the event it drops as published.
DropCountedAsPublished(st) == Bump(st, "events_published")

\* `except asyncio.TimeoutError` of publish: the statistics after a drop.
OnQueueFullTimeout(st) == Bump(st, "events_dropped")

\* The 5.0 s of wait_for run out for a suspended put: the put is cancelled,
\* publish counts the drop and returns normally.
PutTimeout(i) ==
    /\ i \in 1..Len(putters)
    /\ LET p == putters[i] IN
       /\ putters' = RemoveAt(putters, i)
       /\ dropLog' = dropLog \cup {p.ev}
       /\ AfterPut(p.owner, OnQueueFullTimeout(stats))
    /\ UNCHANGED <<subs, nextSub, middleware, queue, history, pending, futs,
                   running, loop, cur, curSubs, todo, nextId, enqLog, dispLog,
                   invoked, errBase, matched, allSubs>>

\* A producer coroutine calls bus.publish(event).
ExtPublish(type, source, cid, result, error) ==
    /\ nextId < MaxEvents
    /\ nextId' = nextId + 1
    /\ publish(Event(nextId + 1, type, source, cid, result, error), ExtOwner, stats)
    /\ UNCHANGED <<subs, nextSub, middleware, history, pending, futs, running,
                   loop, cur, curSubs, todo, calls, dispLog, dropLog, invoked,
                   errBase, matched, allSubs>>

(***************************************************************************)
(* Subscriptions.                                                          *)
(***************************************************************************)
\* EventBus.subscribe
subscribe(pattern, handler) ==
    /\ nextSub < MaxSubs
    /\ nextSub' = nextSub + 1
    /\ LET s == [id |-> nextSub + 1, pattern |-> pattern, handler |-> handler]
       IN /\ subs' = subs \cup {s}
          /\ allSubs' = allSubs \cup {s}
    /\ UNCHANGED <<middleware, queue, putters, history, pending, futs, running,
                   stats, loop, cur, curSubs, todo, calls, nextId, enqLog,
                   dispLog, dropLog, invoked, errBase, matched>>

\* EventBus.unsubscribe (of an id that is subscribed; any other id returns
\* False and changes nothing)
unsubscribe(sid) ==
    /\ \E s \in subs : s.id = sid
    /\ subs' = {s \in subs : s.id # sid}
    /\ UNCHANGED <<nextSub, middleware, queue, putters, history, pending, futs,
                   running, stats, loop, cur, curSubs, todo, calls, nextId,
                   enqLog, dispLog, dropLog, invoked, errBase, matched, allSubs>>

\* EventBus._get_handlers
get_handlers(event_type) == {s \in subs : Matches(s.pattern, event_type)}

(***************************************************************************)
(* The consumer loop.                                                      *)
(***************************************************************************)
\* EventBus.start
start ==
    /\ ~running
    /\ loop \in {"none", "exited"}
    /\ running' = TRUE
    /\ loop' = "get"
    /\ UNCHANGED <<subs, nextSub, middleware, queue, putters, history, pending,
                   futs, stats, cur, curSubs, todo, calls, nextId, enqLog,
                   dispLog, dropLog, invoked, errBase, matched, allSubs>>

\* A history that never discards: list.append.
HistoryAppendUnbounded(h, ev) == Append(h, ev)

\* deque(maxlen=history_size).append
HistoryAppend(h, ev) ==
    IF HistorySize = 0 THEN h
    ELSE IF Len(h) >= HistorySize THEN Append(Tail(h), ev)
    ELSE Append(h, ev)

\* EventBus.get_history: list(self._history)[-limit:].  The slice [-0:] is
\* the whole list.
get_history(limit) ==
    LET n == Len(history) IN
    IF limit = 0 \/ limit >= n THEN history
    ELSE SubSeq(history, n - limit + 1, n)

\* _check_pending_responses without the `if not pending.future.done()` test:
\* a later matching event replaces the result.
check_pending_unguarded(ev) ==
    IF ev.cid = NoCid THEN futs
    ELSE LET pe == pending[ev.cid] IN
         IF pe.call # 0 /\ ev.type \in pe.types
         THEN [futs EXCEPT ![pe.call] = [st |-> "done", ev |-> ev]]
         ELSE futs

\* _check_pending_responses without the `event.type in response_types`
\* test: any event under the correlation id resolves the wait.
check_pending_any_type(ev) ==
    IF ev.cid = NoCid THEN futs
    ELSE LET pe == pending[ev.cid] IN
         IF pe.call # 0 /\ futs[pe.call].st = "pending"
         THEN [futs EXCEPT ![pe.call] = [st |-> "done", ev |-> ev]]
         ELSE futs

\* A _dispatch that looks at the pending responses only once the middleware
\* chain has let the event through to a matching handler.
check_pending_after_chain(ev) ==
    IF get_handlers(ev.type) = {}
       \/ \E i \in 1..Len(middleware) : middleware[i] # "pass"
    THEN futs
    ELSE IF ev.cid = NoCid THEN futs
    ELSE LET pe == pending[ev.cid] IN
         IF pe.call # 0 /\ ev.type \in pe.types /\ futs[pe.call].st = "pending"
         THEN [futs EXCEPT ![pe.call] = [st |-> "done", ev |-> ev]]
         ELSE futs

\* EventBus._check_pending_responses: the futures after `ev` is dispatched.
check_pending_responses(ev) ==
    IF ev.cid = NoCid THEN futs
    ELSE LET pe == pending[ev.cid] IN
         IF pe.call = 0 THEN futs
         ELSE IF ev.type \in pe.types /\ futs[pe.call].st = "pending"
              THEN [futs EXCEPT ![pe.call] = [st |-> "done", ev |-> ev]]
              ELSE futs

\* EventBus.use.  A middleware is one of three kinds: "pass" awaits
\* next(event) and returns, "block" returns without calling next, "raise"
\* raises before calling next.
use(kind) ==
    /\ Len(middleware) < MaxMiddleware
    /\ middleware' = Append(middleware, kind)
    /\ UNCHANGED <<subs, nextSub, queue, putters, history, pending, futs, running,
                   stats, loop, cur, curSubs, todo, calls, nextId, enqLog,
                   dispLog, dropLog, invoked, errBase, matched, allSubs>>

\* A pipeline that reaches the handlers whatever the middleware does.
ChainIgnoresMiddleware == TRUE

\* EventBus._apply_middleware with the chain as installed: the handlers are
\* reached when every middleware calls next.
ChainReachesHandlers == \A i \in 1..Len(middleware) : middleware[i] = "pass"

\* The first middleware that does not call next: 0 when there is none.
FirstStop ==
    IF ChainReachesHandlers THEN 0
    ELSE CHOOSE i \in 1..Len(middleware) :
            /\ middleware[i] # "pass"
            /\ \A j \in 1..(i - 1) : middleware[j] = "pass"

\* The chain ends in a middleware that raises: _dispatch raises, and
\* _process_loop counts an error instead of a processed event.
ChainRaises == FirstStop # 0 /\ middleware[FirstStop] = "raise"

\* next_fn of create_next(index), called: the middleware invoked from there
\* on, as positions in _middleware (1 for the first registered).  index is
\* the code's 0-based index.
RECURSIVE next_fn(_, _)
next_fn(mw, index) ==
    IF index < Len(mw)
    THEN <<index + 1>> \o (IF mw[index + 1] = "pass"
                           THEN next_fn(mw, index + 1) ELSE <<>>)
    ELSE <<>>

\* EventBus._apply_middleware: the middleware invoked for one event.  The
\* first middleware is called with first_next = create_next(0), whose
\* next_fn calls _middleware[0] again.
apply_middleware(mw) ==
    IF mw # <<>>
    THEN <<1>> \o (IF mw[1] = "pass" THEN next_fn(mw, 0) ELSE <<>>)
    ELSE <<>>

\* EventBus._dispatch: with no matching handler it returns before the
\* pipeline is applied.
dispatch_calls(mw, handlers) ==
    IF handlers = {} THEN <<>> ELSE apply_middleware(mw)

\* The position of the loop after one iteration: `while self._running`.
LoopHead == IF running THEN "get" ELSE "exited"

\* A queue that hands out its newest event first.
QueueGetLifo ==
    [ev |-> queue[Len(queue)], rest |-> SubSeq(queue, 1, Len(queue) - 1)]

\* queue.get(): the event the loop takes and the queue it leaves (the
\* queue is a deque, get pops on the left).
QueueGet == [ev |-> Head(queue), rest |-> Tail(queue)]

\* _process_loop gets an event and _dispatch runs up to its first await:
\* history, pending responses, matching handlers, middleware; with no
\* handler to run the iteration ends here (events_processed += 1,
\* task_done).
LoopTake ==
    /\ loop = "get"
    /\ queue # <<>>
    /\ LET ev == QueueGet.ev
           hs == get_handlers(ev.type)
       IN
       /\ queue' = QueueGet.rest
       /\ dispLog' = Append(dispLog, ev)
       /\ history' = HistoryAppend(history, ev)
       /\ futs' = check_pending_responses(ev)
       /\ IF hs # {} /\ ChainReachesHandlers
          THEN /\ loop' = "dispatch"
               /\ cur' = ev
               /\ curSubs' = hs
               /\ todo' = hs
               /\ errBase' = stats.errors
               /\ matched' = matched \cup {<<ev.id, h.id>> : h \in hs}
               /\ UNCHANGED stats
          ELSE /\ loop' = LoopHead
               /\ stats' = Bump(stats, IF hs # {} /\ ChainRaises THEN "errors"
                                       ELSE "events_processed")
               /\ UNCHANGED <<cur, curSubs, todo, errBase, matched>>
    /\ UNCHANGED <<subs, nextSub, middleware, putters, pending, running, calls,
                   nextId, enqLog, dropLog, invoked, allSubs>>

\* wait_for(queue.get(), 1.0) times out on an empty queue and the loop finds
\* _running false.
LoopExit ==
    /\ loop = "get"
    /\ queue = <<>>
    /\ ~running
    /\ loop' = "exited"
    /\ UNCHANGED <<subs, nextSub, middleware, queue, putters, history, pending,
                   futs, running, stats, cur, curSubs, todo, calls, nextId,
                   enqLog, dispLog, dropLog, invoked, errBase, matched, allSubs>>


(***************************************************************************)
(* Handlers.  A handler is [kind, name]: what the subscribed coroutine     *)
(* does with an event, and the agent name it reports under.                *)
(*   noop            returns                                               *)
(*   forward         on worker.progress: report_lead_progress              *)
(*   lead_progress   on orchestrator.delegate: report_lead_progress        *)
(*   worker_progress on lead.assign: report_worker_progress                *)
(*   raise           raises an exception                                   *)
(*   lead_complete   on orchestrator.delegate: report_lead_complete        *)
(*   lead_error      on orchestrator.delegate: report_lead_error           *)
(*   worker_complete on lead.assign: report_worker_complete                *)
(*   worker_error    on lead.assign: report_worker_error                   *)
(* The reports carry the correlation id of the event handled and           *)
(* source=name, as AgentCommunicator.report_complete / report_error do.    *)
(***************************************************************************)
Handler(kind, name) == [kind |-> kind, name |-> name]

\* report_lead_complete / report_worker_complete: the event they publish
report_lead_complete(id, result, cid, source) ==
    Event(id, "lead.complete", source, cid, result, Absent)

report_worker_complete(id, result, cid, source) ==
    Event(id, "worker.complete", source, cid, result, Absent)

\* report_lead_error / report_worker_error: both build their event with
\* create_error_event(error=..., source=source, ...)
report_lead_error(id, error, cid, source) ==
    create_error_event(id, error, source, cid)

report_worker_error(id, error, cid, source) ==
    create_error_event(id, error, source, cid)

\* create_event(LEAD_PROGRESS, source, ..., correlation_id) of
\* report_lead_progress
report_lead_progress(id, cid, source) ==
    Event(id, "lead.progress", source, cid, Absent, Absent)

\* create_event(WORKER_PROGRESS, source, ..., correlation_id) of
\* report_worker_progress
report_worker_progress(id, cid, source) ==
    Event(id, "worker.progress", source, cid, Absent, Absent)

\* The events handler h publishes when it is called with ev (none or one).
Reaction(h, ev, id) ==
    IF h.kind = "forward" /\ ev.type = "worker.progress"
    THEN <<report_lead_progress(id, ev.cid, h.name)>>
    ELSE IF h.kind = "lead_progress" /\ ev.type = "orchestrator.delegate"
    THEN <<report_lead_progress(id, ev.cid, h.name)>>
    ELSE IF h.kind = "worker_progress" /\ ev.type = "lead.assign"
    THEN <<report_worker_progress(id, ev.cid, h.name)>>
    ELSE IF h.kind = "lead_complete" /\ ev.type = "orchestrator.delegate"
    THEN <<report_lead_complete(id, "done", ev.cid, h.name)>>
    ELSE IF h.kind = "lead_error" /\ ev.type = "orchestrator.delegate"
    THEN <<report_lead_error(id, "boom", ev.cid, h.name)>>
    ELSE IF h.kind = "worker_complete" /\ ev.type = "lead.assign"
    THEN <<report_worker_complete(id, "done", ev.cid, h.name)>>
    ELSE IF h.kind = "worker_error" /\ ev.type = "lead.assign"
    THEN <<report_worker_error(id, "boom", ev.cid, h.name)>>
    ELSE <<>>

\* A dispatch that gives up at the first failing handler and drops it.
HandlerErrorEscapes(s) == [todo |-> {}, subs |-> subs \ {s}]

\* `except Exception` of _call_handler under gather: the handler tasks
\* still to run and the subscriptions once the handler of s has raised.
OnHandlerError(s) == [todo |-> todo \ {s}, subs |-> subs]

\* _call_handler(handler, event), one of the tasks gathered by _dispatch, up
\* to its end or to its suspension in publish on a full queue.
call_handler(s) ==
    /\ loop = "dispatch"
    /\ s \in todo
    /\ todo' = IF s.handler.kind = "raise" THEN OnHandlerError(s).todo
               ELSE todo \ {s}
    /\ subs' = IF s.handler.kind = "raise" THEN OnHandlerError(s).subs ELSE subs
    /\ invoked' = invoked \cup {<<cur.id, s.id>>}
    /\ LET out == Reaction(s.handler, cur, nextId + 1) IN
       IF s.handler.kind = "raise"
       THEN /\ stats' = Bump(stats, "errors")
            /\ UNCHANGED <<queue, putters, enqLog, nextId>>
       ELSE IF out = <<>>
       THEN /\ stats' = Bump(stats, "handlers_called")
            /\ UNCHANGED <<queue, putters, enqLog, nextId>>
       ELSE /\ nextId < MaxEvents
            /\ nextId' = nextId + 1
            /\ publish(out[1], HandlerOwner(s.id),
                       IF QueueFull THEN stats ELSE Bump(stats, "handlers_called"))
    /\ UNCHANGED <<nextSub, middleware, history, pending, futs, running,
                   loop, cur, curSubs, calls, dispLog, dropLog, errBase, matched, allSubs>>

\* A dispatch that starts the handlers as tasks of their own and goes on
\* while some of them are still suspended in a publish_and_wait.
GatherDetached ==
    \A s \in todo : \E c \in CallIds : awaiting[c] = [sub |-> s.id, ev |-> cur.id]

\* `await asyncio.gather(*tasks)` in call_handlers: it returns once every
\* handler task of the dispatch has ended.
GatherDone == todo = {}

\* gather(...) returns: every handler task of the dispatch has ended;
\* events_processed += 1, task_done, next iteration.
DispatchEnd ==
    /\ loop = "dispatch"
    /\ GatherDone
    /\ \A i \in 1..Len(putters) : putters[i].owner.kind # "handler"
    /\ stats' = Bump(stats, "events_processed")
    /\ loop' = LoopHead
    /\ cur' = NoEvent
    /\ curSubs' = {}
    /\ UNCHANGED <<subs, nextSub, middleware, queue, putters, history, pending,
                   futs, running, todo, calls, nextId, enqLog, dispLog, dropLog,
                   invoked, errBase, matched, allSubs>>

(***************************************************************************)
(* publish_and_wait and its two users, delegate_to_lead and                *)
(* assign_to_worker.                                                       *)
(***************************************************************************)
None == "None"

ResponseTypes(kind) ==
    IF kind = "lead" THEN {"lead.complete", "lead.error"}
    ELSE {"worker.complete", "worker.error"}

\* generate_correlation_id(): an id no earlier call has used
generate_correlation_id == 1 + Cardinality({c \in CallIds : calls[c].pc # "idle"})

\* publish_and_wait up to its first suspension: the pending entry is
\* registered under the event's correlation id (replacing any entry there),
\* then the event is published.
publish_and_wait(c, kind, ev) ==
    /\ calls[c].pc = "idle"
    /\ \A d \in CallIds : d < c => calls[d].pc # "idle"
    /\ nextId < MaxEvents
    /\ nextId' = nextId + 1
    /\ futs' = [futs EXCEPT ![c] = [st |-> "pending", ev |-> NoEvent]]
    /\ pending' = [pending EXCEPT ![ev.cid] =
                       [call |-> c, types |-> ResponseTypes(kind)]]
    /\ calls' = [calls EXCEPT ![c] =
                    [kind |-> kind, cid |-> ev.cid,
                     pc |-> IF QueueFull THEN "putting" ELSE "waiting",
                     resp |-> NoEvent, res |-> NoResult, via |-> "", toAt |-> 0]]
    /\ publish(ev, CallOwner(c), stats)
    /\ UNCHANGED <<subs, nextSub, middleware, history, running, loop, cur,
                   curSubs, todo, dispLog, dropLog, invoked, errBase, matched, allSubs>>

\* delegate_to_lead(lead, task, ..., correlation_id=cid)
delegate_to_lead(c, cid) ==
    publish_and_wait(c, "lead",
        Event(nextId + 1, "orchestrator.delegate", "orchestrator", cid,
              Absent, Absent))

\* assign_to_worker(worker, subtask, ..., correlation_id=cid, source=source)
assign_to_worker(c, cid, source) ==
    publish_and_wait(c, "worker",
        Event(nextId + 1, "lead.assign", source, cid, Absent, Absent))

\* The DelegationResult / WorkerResult built from the response.
TimeoutError(kind) ==
    IF kind = "lead" THEN "Delegation timed out" ELSE "Worker timed out"

CompleteType(kind) == IF kind = "lead" THEN "lead.complete" ELSE "worker.complete"

\* A result builder that reads neither data["result"] nor data["error"].
ResultOfNoData(kind, response) ==
    IF response = NoEvent
    THEN [success |-> FALSE, result |-> None, error |-> TimeoutError(kind)]
    ELSE [success |-> response.type = CompleteType(kind), result |-> None,
          error |-> None]

ResultOf(kind, response) ==
    IF response = NoEvent
    THEN [success |-> FALSE, result |-> None, error |-> TimeoutError(kind)]
    ELSE IF response.type = CompleteType(kind)
    THEN [success |-> TRUE,
          result |-> IF response.result = Absent THEN None ELSE response.result,
          error |-> None]
    ELSE [success |-> FALSE, result |-> None,
          error |-> IF response.error = Absent THEN "Unknown error"
                    ELSE response.error]

\* A `finally` that leaves the pending entry in place.
PendingKeep(cid) == pending

\* pending.pop(correlation_id, None)
PendingPop(cid) == [pending EXCEPT ![cid] = NoPending]

\* wait_for(future) returns the response: publish_and_wait removes the
\* pending entry and returns, the caller builds its result.
CallReturn(c) ==
    /\ calls[c].pc = "waiting"
    /\ futs[c].st = "done"
    /\ pending' = PendingPop(calls[c].cid)
    /\ calls' = [calls EXCEPT ![c].pc = "done",
                              ![c].via = "response",
                              ![c].resp = futs[c].ev,
                              ![c].res = ResultOf(calls[c].kind, futs[c].ev)]
    /\ UNCHANGED <<subs, nextSub, middleware, queue, putters, history, futs,
                   running, stats, loop, cur, curSubs, todo, nextId, enqLog,
                   dispLog, dropLog, invoked, errBase, matched, allSubs>>

\* The timeout of wait_for(future, timeout) runs out: the future is
\* cancelled; the caller resumes in a later step of the event loop.
CallTimeout(c) ==
    /\ calls[c].pc = "waiting"
    /\ futs[c].st = "pending"
    /\ futs' = [futs EXCEPT ![c].st = "cancelled"]
    /\ calls' = [calls EXCEPT ![c].pc = "timedout", ![c].via = "timeout",
                              ![c].toAt = Len(dispLog)]
    /\ UNCHANGED <<subs, nextSub, middleware, queue, putters, history, pending,
                   running, stats, loop, cur, curSubs, todo, nextId, enqLog,
                   dispLog, dropLog, invoked, errBase, matched, allSubs>>

\* The caller resumes with TimeoutError: publish_and_wait returns None
\* after removing the pending entry, the caller builds the timeout result.
CallCleanup(c) ==
    /\ calls[c].pc = "timedout"
    /\ pending' = PendingPop(calls[c].cid)
    /\ calls' = [calls EXCEPT ![c].pc = "done",
                              ![c].res = ResultOf(calls[c].kind, NoEvent)]
    /\ UNCHANGED <<subs, nextSub, middleware, queue, putters, history, futs,
                   running, stats, loop, cur, curSubs, todo, nextId, enqLog,
                   dispLog, dropLog, invoked, errBase, matched, allSubs>>


\* A caller without its `except Exception`: the exception leaves the call.
Reraise(e) == [pc |-> "raised", res |-> NoResult]

\* `except Exception as e` of delegate_to_lead / assign_to_worker: where the
\* call stands and what it returns once an exception has reached it.
OnException(e) ==
    [pc |-> "done", res |-> [success |-> FALSE, result |-> None, error |-> e]]

\* An exception other than the timeout comes out of the awaited
\* publish_and_wait while the call waits for its response (the `finally` of
\* publish_and_wait has removed the pending entry).
CallFault(c) ==
    /\ calls[c].pc = "waiting"
    /\ futs[c].st = "pending"
    /\ pending' = PendingPop(calls[c].cid)
    /\ calls' = [calls EXCEPT ![c].pc = OnException("RuntimeError").pc,
                              ![c].via = "exception",
                              ![c].res = OnException("RuntimeError").res]
    /\ UNCHANGED <<subs, nextSub, middleware, queue, putters, history, futs,
                   running, stats, loop, cur, curSubs, todo, nextId, enqLog,
                   dispLog, dropLog, invoked, errBase, matched, allSubs>>


(***************************************************************************)
(* Permissions: risk classification, presets, the manager.                 *)
(***************************************************************************)
MaxAdded == 1       \* add_escalation_pattern calls in one run
MaxOps == 2         \* execute_with_permission / request_approval calls in one run

RiskLevels == {"low", "medium", "high", "critical"}

\* ToolRiskClassifier._compare_levels: the position of a level in `order`.
LevelIndex(l) ==
    CASE l = "low" -> 0 [] l = "medium" -> 1 [] l = "high" -> 2
      [] l = "critical" -> 3

\* A comparison that ranks the levels the other way round.
compare_reversed(a, b) == LevelIndex(b) - LevelIndex(a)

compare_levels(a, b) == LevelIndex(a) - LevelIndex(b)

Tools == {"read_file", "write_file", "forget", "execute_command", "deploy"}

\* TOOL_RISK_LEVELS.get(tool_name, RiskLevel.HIGH)
BaseLevel(tool) ==
    CASE tool = "read_file" -> "low"
      [] tool = "write_file" -> "medium"
      [] tool = "forget" -> "medium"
      [] tool = "execute_command" -> "high"
      [] OTHER -> "high"

\* The tool inputs of the model: the empty dict, or one key with its value.
NoInput == [key |-> "none", value |-> ""]
ToolInputs(tool) ==
    CASE tool = "write_file" ->
             {NoInput, [key |-> "path", value |-> "/tmp/a.txt"],
              [key |-> "path", value |-> "/etc/passwd"]}
      [] tool = "execute_command" ->
             {NoInput, [key |-> "command", value |-> "ls"],
              [key |-> "command", value |-> "sudo ls"],
              [key |-> "command", value |-> "brew list"]}
      [] OTHER -> {NoInput}

\* RISK_ESCALATION_PATTERNS, the patterns that the inputs above can match:
\* "prefix" is ^text, "word" is \btext\b.
Patterns(tool) ==
    CASE tool = "write_file" ->
             <<[kind |-> "prefix", text |-> "/etc/", level |-> "critical"],
               [kind |-> "prefix", text |-> "/var/", level |-> "high"]>>
      [] tool = "execute_command" ->
             <<[kind |-> "word", text |-> "sudo", level |-> "critical"],
               [kind |-> "word", text |-> "brew", level |-> "medium"]>>
      [] OTHER -> <<>>

IsWordChar(c) == c \notin {" ", "/", ".", "-"}

\* pattern.search(value), patterns compiled with re.IGNORECASE
search(pat, value) ==
    LET cs == Lower(Chars(value))
        t == Lower(Chars(pat.text))
    IN IF pat.kind = "prefix"
       THEN Len(cs) >= Len(t) /\ SubSeq(cs, 1, Len(t)) = t
       ELSE \E k \in 0..(Len(cs) - Len(t)) :
               /\ SubSeq(cs, k + 1, k + Len(t)) = t
               /\ (k = 0 \/ ~IsWordChar(cs[k]))
               /\ (k + Len(t) = Len(cs) \/ ~IsWordChar(cs[k + Len(t) + 1]))

\* The value _check_escalation looks at: input["path"] for write_file,
\* input["command"] for execute_command, when the key is there.
ValuesToCheck(tool, input) ==
    IF (tool = "write_file" /\ input.key = "path")
       \/ (tool = "execute_command" /\ input.key = "command")
    THEN <<input.value>> ELSE <<>>

\* The loop of _check_escalation over the patterns from index i on.
RECURSIVE Highest(_, _, _, _)
Highest(pats, i, value, level) ==
    IF i > Len(pats) THEN level
    ELSE Highest(pats, i + 1, value,
                 IF search(pats[i], value)
                    /\ compare_levels(pats[i].level, level) > 0
                 THEN pats[i].level ELSE level)

\* TOOL_RISK_LEVELS.get(tool_name, RiskLevel.HIGH) with the entries that
\* register_tool_risk has written.
base_level(tool) ==
    IF toolRisk[tool] # "unset" THEN toolRisk[tool] ELSE BaseLevel(tool)

\* self._patterns.get(tool_name, []): the compiled table followed by the
\* patterns added since.
patterns_of(tool) == Patterns(tool) \o addedPatterns[tool]

\* ToolRiskClassifier.classify
classify(tool, input) ==
    LET base == base_level(tool)
        vals == ValuesToCheck(tool, input)
    IN IF input # NoInput /\ patterns_of(tool) # <<>> /\ vals # <<>>
       THEN Highest(patterns_of(tool), 1, vals[1], base)
       ELSE base

NoClassified == [tool |-> "none", input |-> NoInput, level |-> "none"]

InitClassifier ==
    /\ toolRisk = [t \in Tools |-> "unset"]
    /\ addedPatterns = [t \in Tools |-> <<>>]
    /\ classified = NoClassified

\* ToolRiskClassifier.register_tool_risk
register_tool_risk(tool, level) ==
    /\ classified = NoClassified
    /\ toolRisk' = [toolRisk EXCEPT ![tool] = level]
    /\ UNCHANGED <<addedPatterns, classified>>

\* The patterns added in one run.
AddedCount == Len(addedPatterns["read_file"]) + Len(addedPatterns["write_file"])
              + Len(addedPatterns["forget"]) + Len(addedPatterns["execute_command"])
              + Len(addedPatterns["deploy"])

\* ToolRiskClassifier.add_escalation_pattern
add_escalation_pattern(tool, pattern) ==
    /\ classified = NoClassified
    /\ AddedCount < MaxAdded
    /\ addedPatterns' = [addedPatterns EXCEPT ![tool] = Append(@, pattern)]
    /\ UNCHANGED <<toolRisk, classified>>

\* classifier.classify(tool, input), the result kept in `classified`
Classify(tool, input) ==
    /\ classified' = [tool |-> tool, input |-> input, level |-> classify(tool, input)]
    /\ UNCHANGED <<toolRisk, addedPatterns>>

\* tool_overrides.get(tool): "none" when the tool has no override.
NoOverrides == [t \in Tools |-> "none"]

\* A preset table in which every preset lets every level through.
PresetAllowsAll(preset) ==
    [name |-> preset, require_approval |-> {}, auto_deny |-> {},
     auto_allow |-> {"low", "medium", "high", "critical"},
     tool_overrides |-> NoOverrides, debug_mode_bypass |-> FALSE,
     approval_timeout |-> 300, log_all_operations |-> TRUE]

\* PRESET_CONFIGS and get_preset_config
get_preset_config(preset) ==
    CASE preset = "strict" ->
             [name |-> "strict",
              require_approval |-> {"medium", "high", "critical"},
              auto_deny |-> {}, auto_allow |-> {"low"},
              tool_overrides |-> [NoOverrides EXCEPT !["write_file"] = "approve",
                                                    !["execute_command"] = "approve"],
              debug_mode_bypass |-> FALSE, approval_timeout |-> 300,
              log_all_operations |-> TRUE]
      [] preset = "moderate" ->
             [name |-> "moderate",
              require_approval |-> {"high", "critical"},
              auto_deny |-> {}, auto_allow |-> {"low", "medium"},
              tool_overrides |-> [NoOverrides EXCEPT !["execute_command"] = "approve"],
              debug_mode_bypass |-> FALSE, approval_timeout |-> 180,
              log_all_operations |-> TRUE]
      [] preset = "relaxed" ->
             [name |-> "relaxed",
              require_approval |-> {"critical"},
              auto_deny |-> {}, auto_allow |-> {"low", "medium", "high"},
              tool_overrides |-> NoOverrides,
              debug_mode_bypass |-> TRUE, approval_timeout |-> 120,
              log_all_operations |-> FALSE]

\* create_custom_preset: an empty or missing set takes the default.
create_custom_preset(require_approval, auto_deny, auto_allow, tool_overrides) ==
    [name |-> "custom",
     require_approval |-> IF require_approval = {} THEN {"high", "critical"}
                          ELSE require_approval,
     auto_deny |-> auto_deny,
     auto_allow |-> IF auto_allow = {} THEN {"low"} ELSE auto_allow,
     tool_overrides |-> tool_overrides,
     debug_mode_bypass |-> FALSE, approval_timeout |-> 180,
     log_all_operations |-> TRUE]

\* The custom configurations of the model: the defaults, and one that
\* blocks critical operations and one tool and lets another tool through.
CustomConfigs ==
    { create_custom_preset({}, {}, {}, NoOverrides),
      create_custom_preset({"high"}, {"critical"}, {"low", "medium"},
                           [NoOverrides EXCEPT !["read_file"] = "deny",
                                               !["deploy"] = "allow"]) }

NoConfig == [name |-> "none", require_approval |-> {}, auto_deny |-> {},
             auto_allow |-> {}, tool_overrides |-> NoOverrides,
             debug_mode_bypass |-> FALSE, approval_timeout |-> 0,
             log_all_operations |-> FALSE]

(***************************************************************************)
(* Values of an input dictionary.  A string is [type, len, text, cut]:     *)
(* its length, a name for its characters, and whether it is the first 500  *)
(* characters of `text` followed by "... [truncated]".  Other values       *)
(* (numbers, nested dictionaries) have len 0.                              *)
(***************************************************************************)
Str(text, len) == [type |-> "str", len |-> len, text |-> text, cut |-> FALSE]
Other(type, text) == [type |-> type, len |-> 0, text |-> text, cut |-> FALSE]

REDACTED == Str("[REDACTED]", 10)
TruncateAt == 500       \* len(value) > 500
MarkerLen == 15         \* len("... [truncated]")

\* value[:500] + "... [truncated]"
Truncated(value) == [value EXCEPT !.len = TruncateAt + MarkerLen, !.cut = TRUE]

SensitiveWords == {"password", "secret", "token", "key"}

\* A sanitizer that redacts only keys equal to one of the words.
sanitize_exact_keys(input_data) ==
    [key \in DOMAIN input_data |->
        IF key \in SensitiveWords THEN REDACTED
        ELSE IF input_data[key].type = "str" /\ input_data[key].len > TruncateAt
        THEN Truncated(input_data[key])
        ELSE input_data[key]]

\* AuditLog._sanitize_input(input_data)
sanitize_input(input_data) ==
    [key \in DOMAIN input_data |->
        IF \E w \in SensitiveWords : Contains(Chars(w), Lower(Chars(key)))
        THEN REDACTED
        ELSE IF input_data[key].type = "str" /\ input_data[key].len > TruncateAt
        THEN Truncated(input_data[key])
        ELSE input_data[key]]

\* AuditEntry(...): the entry AuditLog.log builds, id still None (0).
AuditEntry(action, tool, risk, approved_by, denial_reason) ==
    [id |-> 0, action |-> action, tool |-> tool, risk |-> risk,
     approved_by |-> approved_by, denial_reason |-> denial_reason]

\* The largest id of the table (0 for an empty table): the next
\* AUTOINCREMENT id is one more.
LastId(rows) ==
    IF rows = <<>> THEN 0
    ELSE CHOOSE n \in {rows[i].id : i \in 1..Len(rows)} :
            \A i \in 1..Len(rows) : rows[i].id <= n

\* A store that writes the entry over the newest row (UPDATE).
log_over_last(rows, entry) ==
    IF rows = <<>> THEN <<[entry EXCEPT !.id = 1]>>
    ELSE [rows EXCEPT ![Len(rows)] = [entry EXCEPT !.id = rows[Len(rows)].id]]

\* AuditLog.log: INSERT INTO audit_log; the table after the insert.
log(rows, entry) == Append(rows, [entry EXCEPT !.id = LastId(rows) + 1])

NoStatistics == [asked |-> FALSE, since |-> -1, raised |-> FALSE,
                 total_entries |-> 0, by_action |-> <<>>, by_risk_level |-> <<>>]

InitAudit == auditMeta = [calls |-> 0, now |-> 0, given |-> <<>>,
                          stats |-> NoStatistics]

\* The log calls of a code path, in order.
RECURSIVE LogAll(_, _)
LogAll(rows, entries) ==
    IF entries = <<>> THEN rows
    ELSE LogAll(log(rows, Head(entries)), Tail(entries))

PermissionResult(allowed, risk, reason, requires_approval) ==
    [allowed |-> allowed, risk_level |-> risk, reason |-> reason,
     requires_approval |-> requires_approval]

\* A bypass that looks at settings.debug alone.
BypassWheneverDebug == debug

\* `self._config.debug_mode_bypass and settings.debug`
DebugBypass == config.debug_mode_bypass /\ debug

\* PermissionManager.check_permission: its result and the audit rows it
\* writes.
check_permission(tool, input) ==
    LET risk == classify(tool, input)
        logged == IF config.log_all_operations
                  THEN <<AuditEntry("permission_check", tool, risk, None, None)>>
                  ELSE <<>>
        override == config.tool_overrides[tool]
    IN IF override = "deny"
       THEN [result |-> PermissionResult(FALSE, risk,
                            "blocked by preset configuration", FALSE),
             rows |-> logged]
       ELSE IF override = "allow"
       THEN [result |-> PermissionResult(TRUE, risk,
                            "allowed by preset override", FALSE),
             rows |-> logged]
       ELSE IF risk \in config.auto_deny
       THEN [result |-> PermissionResult(FALSE, risk,
                            "risk is automatically denied", FALSE),
             rows |-> Append(logged,
                         AuditEntry("tool_denied", tool, risk, None,
                                    "risk level is auto-denied"))]
       ELSE IF risk \in config.auto_allow
       THEN [result |-> PermissionResult(TRUE, risk,
                            "risk is automatically allowed", FALSE),
             rows |-> logged]
       ELSE IF risk \in config.require_approval
       THEN IF DebugBypass
            THEN [result |-> PermissionResult(TRUE, risk,
                                 "approval bypassed in debug mode", FALSE),
                  rows |-> logged]
            ELSE [result |-> PermissionResult(FALSE, risk,
                                 "risk requires approval", TRUE),
                  rows |-> logged]
       ELSE [result |-> PermissionResult(TRUE, risk,
                            "permitted by preset configuration", FALSE),
             rows |-> logged]

NoPermission == PermissionResult(FALSE, "none", "none", FALSE)
NoRet == [success |-> FALSE, text |-> "<unset>", detail |-> "<unset>"]

\* (False, f"Permission denied: {result.reason}")
PermissionDenied(reason) ==
    [success |-> FALSE, text |-> "Permission denied: ", detail |-> reason]

\* A call of execute_with_permission (kind "execute") or of request_approval
\* alone (kind "approval"): where it stands, its arguments, the result of
\* check_permission, what the approval callback did ("unset", "no_callback",
\* "true", "false", "timeout", "raise"), what request_approval returned
\* ("unset", "True", "False", "raised"), whether the executor was invoked,
\* and what the call returned.
IdleOp == [kind |-> "none", pc |-> "idle", tool |-> "none", input |-> NoInput,
           result |-> NoPermission, cb |-> "unset", appr |-> "unset",
           ran |-> FALSE, ret |-> NoRet]

InitPerm ==
    /\ config = NoConfig
    /\ debug = FALSE
    /\ callback = FALSE
    /\ audit = <<>>
    /\ op = IdleOp
    /\ opCount = 0

\* PermissionManager(preset) / PermissionManager(CUSTOM, custom_config),
\* with settings.debug as configured.
PermissionManager(cfg, dbg) ==
    /\ config.name = "none"
    /\ config' = cfg
    /\ debug' = dbg
    /\ UNCHANGED <<callback, audit, op, opCount>>

\* PermissionManager.set_approval_callback
set_approval_callback ==
    /\ config.name # "none"
    /\ ~callback
    /\ callback' = TRUE
    /\ UNCHANGED <<config, debug, audit, op, opCount>>

\* A manager that runs the executor whenever approval was not refused.
DeniesOnlyRefusals(result, approved) == result.requires_approval /\ ~approved

\* The two denials of execute_with_permission: approval was required and
\* not given, or the operation is not allowed and approval cannot help.
Denies(result, approved) ==
    \/ result.requires_approval /\ ~approved
    \/ ~result.allowed /\ ~result.requires_approval

\* execute_with_permission from the point where the approval, if one was
\* required, is known: the denial, or the invocation of the executor.
AfterApproval(o, rows) ==
    IF o.kind = "approval"
    THEN /\ op' = [o EXCEPT !.pc = "done"]
         /\ audit' = rows
    ELSE IF Denies(o.result, o.appr = "True")
    THEN /\ op' = [o EXCEPT !.pc = "done",
                            !.ret = PermissionDenied(o.result.reason)]
         /\ audit' = IF o.result.requires_approval THEN rows
                     ELSE log(rows, AuditEntry("tool_denied", o.tool,
                                     o.result.risk_level, None, o.result.reason))
    ELSE /\ op' = [o EXCEPT !.pc = "executing", !.ran = TRUE]
         /\ audit' = rows

\* request_approval up to its first suspension: the request is logged; with
\* no callback the denial is logged and False returned, otherwise the
\* callback is awaited under wait_for(approval_timeout).
ApprovalBegin(o, rows) ==
    LET asked == log(rows, AuditEntry("approval_requested", o.tool,
                                o.result.risk_level, None, None))
    IN IF ~callback
       THEN AfterApproval([o EXCEPT !.cb = "no_callback", !.appr = "False"],
                          log(asked,
                              AuditEntry("approval_denied", o.tool,
                                  o.result.risk_level, None,
                                  "No approval callback configured")))
       ELSE /\ op' = [o EXCEPT !.pc = "approving"]
            /\ audit' = asked

\* execute_with_permission(agent, tool, input, executor) up to its first
\* suspension.
execute_with_permission(tool, input) ==
    /\ config.name # "none"
    /\ op.pc \in {"idle", "done"}
    /\ opCount < MaxOps
    /\ opCount' = opCount + 1
    /\ LET chk == check_permission(tool, input)
           o == [IdleOp EXCEPT !.kind = "execute", !.tool = tool,
                               !.input = input, !.result = chk.result]
       IN IF chk.result.requires_approval
          THEN ApprovalBegin(o, LogAll(audit, chk.rows))
          ELSE AfterApproval(o, LogAll(audit, chk.rows))
    /\ UNCHANGED <<config, debug, callback>>

\* request_approval(agent, tool, input, risk_level, reason) called on its
\* own, up to its first suspension.
request_approval(tool, risk) ==
    /\ config.name # "none"
    /\ op.pc \in {"idle", "done"}
    /\ opCount < MaxOps
    /\ opCount' = opCount + 1
    /\ ApprovalBegin([IdleOp EXCEPT !.kind = "approval", !.tool = tool,
                         !.result = PermissionResult(FALSE, risk,
                                        "risk requires approval", TRUE)],
                     audit)
    /\ UNCHANGED <<config, debug, callback>>

\* The callback returns `approved` before the timeout: the response is
\* logged and returned.
CallbackReturns(approved) ==
    /\ op.pc = "approving"
    /\ AfterApproval([op EXCEPT !.cb = IF approved THEN "true" ELSE "false",
                                !.appr = IF approved THEN "True" ELSE "False"],
                     log(audit,
                         IF approved
                         THEN AuditEntry("approval_granted", op.tool,
                                  op.result.risk_level, "user", None)
                         ELSE AuditEntry("approval_denied", op.tool,
                                  op.result.risk_level, None, "User response")))
    /\ UNCHANGED <<config, debug, callback, opCount>>

\* approval_timeout runs out: `except asyncio.TimeoutError`.
CallbackTimeout ==
    /\ op.pc = "approving"
    /\ AfterApproval([op EXCEPT !.cb = "timeout", !.appr = "False"],
                     log(audit, AuditEntry("approval_timeout", op.tool,
                                       op.result.risk_level, None, None)))
    /\ UNCHANGED <<config, debug, callback, opCount>>

\* A request_approval that lets through what its callback failed to decide.
FailOpen == "True"

\* `except Exception` of request_approval: what it returns.
OnCallbackError == "False"

\* The callback raises.
CallbackRaises ==
    /\ op.pc = "approving"
    /\ AfterApproval([op EXCEPT !.cb = "raise", !.appr = OnCallbackError], audit)
    /\ UNCHANGED <<config, debug, callback, opCount>>

\* The executor returns its output: tool_executed is logged and
\* (True, output) returned.
ExecutorReturns ==
    /\ op.pc = "executing"
    /\ op' = [op EXCEPT !.pc = "done",
                        !.ret = [success |-> TRUE, text |-> "output",
                                 detail |-> None]]
    /\ audit' = log(audit,
                    AuditEntry("tool_executed", op.tool, op.result.risk_level,
                               IF op.appr = "True" THEN "user" ELSE "auto", None))
    /\ UNCHANGED <<config, debug, callback, opCount>>

\* An execute_with_permission that lets the executor's exception through.
ExecutorErrorPropagates ==
    [success |-> FALSE, text |-> "<raised>", detail |-> "RuntimeError"]

\* `except Exception as e: return False, str(e)`
OnExecutorError == [success |-> FALSE, text |-> "RuntimeError", detail |-> None]

\* The executor raises: (False, str(e)).
ExecutorRaises ==
    /\ op.pc = "executing"
    /\ op' = [op EXCEPT !.pc = "done", !.ret = OnExecutorError]
    /\ UNCHANGED <<config, debug, callback, audit, opCount>>

(***************************************************************************)
(* EventBus.stop.  The caller sets _running to False, waits for            *)
(* queue.join() under a timeout, then cancels the processor task and       *)
(* awaits it.  stopper.enq is the number of events that publish had put    *)
(* on the queue when stop was called (history), stopper.via how the wait   *)
(* for join ended.                                                         *)
(***************************************************************************)
IdleStopper == [pc |-> "idle", enq |-> 0, via |-> "none"]

InitStop == stopper = IdleStopper

\* queue.join() returns: every event put on the queue has been followed by
\* task_done (the consumer calls it when the dispatch of the event ends).
Joined == queue = <<>> /\ loop # "dispatch"

\* stop() up to its first await; `if not self._running: return`.
stop ==
    /\ stopper.pc = "idle"
    /\ running
    /\ running' = FALSE
    /\ stopper' = [pc |-> "joining", enq |-> Len(enqLog), via |-> "none"]
    /\ UNCHANGED <<subs, nextSub, middleware, queue, putters, history, pending,
                   futs, stats, loop, cur, curSubs, todo, calls, nextId, enqLog,
                   dispLog, dropLog, invoked, errBase, matched, allSubs>>

\* wait_for(self._queue.join(), timeout) returns.
StopJoined ==
    /\ stopper.pc = "joining"
    /\ Joined
    /\ stopper' = [stopper EXCEPT !.pc = "cancelling", !.via = "drained"]
    /\ UNCHANGED busVars

\* wait_for(self._queue.join(), timeout) times out.  The handlers finish
\* within the timeout, so the timeout only expires once the consumer loop
\* has returned and nothing can call task_done any more.
StopJoinTimeout ==
    /\ stopper.pc = "joining"
    /\ ~Joined
    /\ loop = "exited"
    /\ stopper' = [stopper EXCEPT !.pc = "cancelling", !.via = "timeout"]
    /\ UNCHANGED busVars

\* self._processor_task.cancel(); await self._processor_task.  A loop that
\* is still running gets CancelledError at its await (the handler tasks of
\* a dispatch in progress are cancelled with it) and breaks out.
StopCancel ==
    /\ stopper.pc = "cancelling"
    /\ stopper' = [stopper EXCEPT !.pc = "stopped"]
    /\ loop' = IF loop = "none" THEN "none" ELSE "exited"
    /\ todo' = {}
    /\ cur' = NoEvent
    /\ curSubs' = {}
    /\ LET NotHandler(p) == p.owner.kind # "handler"
       IN putters' = SelectSeq(putters, NotHandler)
    /\ UNCHANGED <<subs, nextSub, middleware, queue, history, pending, futs,
                   running, stats, calls, nextId, enqLog, dispLog, dropLog,
                   invoked, errBase, matched, allSubs>>

(***************************************************************************)
(* The DelegationManager.  A delegate call is [pc, rid, ran, routed, pub]: *)
(* where the coroutine stands ("idle", "pub_start" and "pub_end" while it  *)
(* is suspended in the publish of its start and of its terminal event,     *)
(* "done"), its request_id, whether the bus was running when it was        *)
(* called, how routing ended, and the events it handed to publish.         *)
(***************************************************************************)
MaxDelegations == 3     \* delegate calls in one run
RequestIds == 1..2      \* the request_id values callers use

DelegationIds == 1..MaxDelegations
IdleDelegation == [pc |-> "idle", rid |-> 0, ran |-> FALSE, routed |-> "none",
                   pub |-> <<>>]

MaxCancels == 2         \* cancel_delegation calls in one run

\* The cancel_delegation calls: how many were made, the request_id and the
\* return value of the latest, and the calls that were in flight under a
\* cancelled request_id.
NoCancel == [calls |-> 0, rid |-> 0, ret |-> FALSE, hit |-> {}]

\* DelegationManager.__init__
InitDelegation ==
    deleg = [active |-> {}, d |-> [i \in DelegationIds |-> IdleDelegation],
             cancel |-> NoCancel]

DelegateOwner(d) == [kind |-> "delegate", idx |-> d]

\* The event of _publish_delegation_start / _complete / _error.
DelegationEvent(id, type) ==
    Event(id, type, "orchestrator", NoCid, Absent, Absent)

\* A delegate that reports every outcome of routing as an error.
TerminalAlwaysError(routed) == "lead.error"

\* The terminal event follows from how routing ended.
TerminalType(routed) ==
    IF routed = "returned" THEN "lead.complete" ELSE "lead.error"

\* A delegate that leaves its request in the map when routing raised.
DelegateFinallyOnSuccess(d, r, act, q, pt, enq, st, nid) ==
    /\ deleg' = [cancel |-> deleg.cancel, active |-> IF r.routed = "raised" THEN act
                            ELSE act \ {r.rid},
                 d |-> [deleg.d EXCEPT ![d] = [r EXCEPT !.pc = "done"]]]
    /\ queue' = q /\ putters' = pt /\ enqLog' = enq /\ stats' = st
    /\ nextId' = nid

\* `finally`: _active_delegations.pop(request_id, None), and the call
\* returns its result.
DelegateFinally(d, r, act, q, pt, enq, st, nid) ==
    /\ deleg' = [cancel |-> deleg.cancel, active |-> act \ {r.rid},
                 d |-> [deleg.d EXCEPT ![d] = [r EXCEPT !.pc = "done"]]]
    /\ queue' = q /\ putters' = pt /\ enqLog' = enq /\ stats' = st
    /\ nextId' = nid

\* delegate from _route_to_lead on: routing returns a result or raises, the
\* terminal event is published when the bus is running (the coroutine is
\* suspended in publish when the queue is full), then `finally` runs.
DelegateRoute(d, r, act, routed, q, pt, enq, st, nid) ==
    LET r2 == [r EXCEPT !.routed = routed]
        ev == DelegationEvent(nid + 1, TerminalType(routed))
        r3 == [r2 EXCEPT !.pub = Append(@, [id |-> ev.id, type |-> ev.type])]
    IN IF ~running
       THEN DelegateFinally(d, r2, act, q, pt, enq, st, nid)
       ELSE IF Len(q) >= MaxQueue
       THEN /\ deleg' = [cancel |-> deleg.cancel, active |-> act,
                         d |-> [deleg.d EXCEPT ![d] =
                                   [r3 EXCEPT !.pc = "pub_end"]]]
            /\ putters' = Append(pt, [ev |-> ev, owner |-> DelegateOwner(d)])
            /\ queue' = q /\ enqLog' = enq /\ stats' = st
            /\ nextId' = nid + 1
       ELSE DelegateFinally(d, r3, act, Append(q, ev), pt, Append(enq, ev.id),
                            Bump(st, "events_published"), nid + 1)

\* DelegationManager.delegate(request) up to its first suspension: the
\* request is recorded, the start event published when the bus is running,
\* then the request is routed.
delegate(d, rid, routed) ==
    /\ deleg.d[d].pc = "idle"
    /\ \A e \in DelegationIds : e < d => deleg.d[e].pc # "idle"
    /\ LET r == [IdleDelegation EXCEPT !.rid = rid, !.ran = running]
           ev == DelegationEvent(nextId + 1, "orchestrator.delegate")
           r1 == [r EXCEPT !.pub = <<[id |-> ev.id, type |-> ev.type]>>]
           act == deleg.active \cup {rid}
       IN IF ~running
          THEN DelegateRoute(d, r, act, routed, queue, putters, enqLog, stats,
                             nextId)
          ELSE IF QueueFull
          THEN /\ deleg' = [cancel |-> deleg.cancel, active |-> act,
                            d |-> [deleg.d EXCEPT ![d] =
                                      [r1 EXCEPT !.pc = "pub_start"]]]
               /\ putters' = Append(putters,
                                    [ev |-> ev, owner |-> DelegateOwner(d)])
               /\ nextId' = nextId + 1
               /\ UNCHANGED <<queue, enqLog, stats>>
          ELSE DelegateRoute(d, r1, act, routed, Append(queue, ev), putters,
                             Append(enqLog, ev.id),
                             Bump(stats, "events_published"), nextId + 1)
    /\ UNCHANGED <<subs, nextSub, middleware, history, pending, futs, running,
                   loop, cur, curSubs, todo, calls, dispLog, dropLog, invoked,
                   errBase, matched, allSubs>>

\* The coroutine of call d goes on after its publish returned.
DelegateResume(d, routed, q, pt, enq, st) ==
    IF deleg.d[d].pc = "pub_start"
    THEN DelegateRoute(d, deleg.d[d], deleg.active, routed, q, pt, enq, st,
                       nextId)
    ELSE DelegateFinally(d, deleg.d[d], deleg.active, q, pt, enq, st, nextId)

\* The suspended put of a delegate call completes: the queue has room.
DelegatePutResume(i, routed) ==
    /\ i \in 1..Len(putters)
    /\ putters[i].owner.kind = "delegate"
    /\ ~QueueFull
    /\ LET p == putters[i] IN
       DelegateResume(p.owner.idx, routed, Append(queue, p.ev),
                      RemoveAt(putters, i), Append(enqLog, p.ev.id),
                      Bump(stats, "events_published"))
    /\ UNCHANGED <<subs, nextSub, middleware, history, pending, futs, running,
                   loop, cur, curSubs, todo, calls, dispLog, dropLog, invoked,
                   errBase, matched, allSubs>>

\* The 5.0 s run out for the suspended put of a delegate call: the event is
\* dropped and publish returns normally.
DelegatePutTimeout(i, routed) ==
    /\ i \in 1..Len(putters)
    /\ putters[i].owner.kind = "delegate"
    /\ dropLog' = dropLog \cup {putters[i].ev}
    /\ LET p == putters[i] IN
       DelegateResume(p.owner.idx, routed, queue, RemoveAt(putters, i),
                      enqLog, OnQueueFullTimeout(stats))
    /\ UNCHANGED <<subs, nextSub, middleware, history, pending, futs, running,
                   loop, cur, curSubs, todo, calls, dispLog, invoked,
                   errBase, matched, allSubs>>

\* DelegationManager.cancel_delegation(request_id): tracking is dropped, the
\* work goes on.
\* A cancel that reports success whether or not the request was tracked.
CancelAlwaysTrue(rid, active) == TRUE

\* `if request_id in self._active_delegations: ... return True`, else
\* `return False`.
CancelReturn(rid, active) == rid \in active

cancel_delegation(rid) ==
    /\ deleg.cancel.calls < MaxCancels
    /\ deleg' = [deleg EXCEPT
                    !.active = @ \ {rid},
                    !.cancel = [calls |-> @.calls + 1, rid |-> rid,
                                ret |-> CancelReturn(rid, deleg.active),
                                hit |-> IF rid \in deleg.active
                                        THEN @.hit \cup
                                             {d \in DelegationIds :
                                                /\ deleg.d[d].rid = rid
                                                /\ deleg.d[d].pc \in
                                                      {"pub_start", "pub_end"}}
                                        ELSE @.hit]]
    /\ UNCHANGED busVars

\* active_delegation_count
active_delegation_count == Cardinality(deleg.active)

(***************************************************************************)
(* The UIEventStreamer.  ui.subs are the patterns of its subscriptions on  *)
(* the bus, ui.now the clock in milliseconds, ui.last_sent the             *)
(* RateLimiter's _last_sent (-1: no entry), ui.log one entry per event the *)
(* bus dispatched: [type, at, progress, handled, sent, out], whether       *)
(* _handle_event ran for it, whether it was broadcast, and the progress    *)
(* field of the broadcast payload.  A progress value is a number of        *)
(* hundredths, NoProgress when the key is absent, BadProgress for a string *)
(* float() rejects.                                                        *)
(***************************************************************************)
EventTypes ==
    {"orchestrator.delegate", "orchestrator.response", "orchestrator.error",
     "lead.received", "lead.planning", "lead.assign", "lead.progress",
     "lead.complete", "lead.error",
     "worker.start", "worker.progress", "worker.complete", "worker.error",
     "tool.execute", "tool.progress", "tool.result", "tool.error",
     "approval.request", "approval.granted", "approval.denied",
     "approval.timeout",
     "agent.started", "agent.idle", "agent.busy", "agent.stopped",
     "memory.store", "memory.recall", "memory.forget",
     "system.startup", "system.shutdown", "system.error"}

UI_RELEVANT_EVENTS ==
    {"agent.started", "agent.idle", "agent.busy", "agent.stopped",
     "lead.received", "lead.planning", "lead.progress", "lead.complete",
     "lead.error",
     "worker.start", "worker.progress", "worker.complete", "worker.error",
     "tool.execute", "tool.progress", "tool.result", "tool.error",
     "approval.request", "approval.granted", "approval.denied",
     "approval.timeout",
     "system.error"}

PRIORITY_EVENTS ==
    {"approval.request", "approval.granted", "approval.denied",
     "worker.complete", "lead.complete", "system.error", "tool.error",
     "worker.error", "lead.error"}

\* A streamer that rate-limits every event type.
LimitEveryEvent == EventTypes

RATE_LIMITED_EVENTS == {"worker.progress", "lead.progress", "tool.progress"}

\* A streamer that subscribes to every event of the bus.
SubscribeToAll == {"*"}

\* The patterns start() subscribes _handle_event to.
StreamerPatterns == UI_RELEVANT_EVENTS

MinInterval == 2        \* rate_limit_ms given to UIEventStreamer(...)
NoProgress == -1000     \* "progress" not in payload
BadProgress == -2000    \* float(payload["progress"]) raises
Full == 100             \* 1.0 in hundredths

InitStreamer ==
    ui = [subs |-> {}, now |-> 0,
          last_sent |-> [t \in RATE_LIMITED_EVENTS |-> -1], log |-> <<>>]

\* A limiter that lets every event through.
NeverLimited(last, now) == TRUE

\* RateLimiter.should_send: no entry yet, or min_interval_ms have elapsed.
should_send(last, now) == last = -1 \/ now - last >= MinInterval

\* _transform_payload: the progress field of the payload; worker.progress
\* and lead.progress get max(0.0, min(1.0, float(progress))).
transform_progress(type, progress) ==
    IF type \in {"worker.progress", "lead.progress"} /\ progress # NoProgress
    THEN IF progress < 0 THEN 0 ELSE IF progress > Full THEN Full ELSE progress
    ELSE progress

\* float() raises inside _transform_payload: _handle_event ends with the
\* exception before it reaches the broadcast.
TransformRaises(type, progress) ==
    type \in {"worker.progress", "lead.progress"} /\ progress = BadProgress

\* UIEventStreamer.start
StreamerStart ==
    /\ ui.subs = {}
    /\ ui' = [ui EXCEPT !.subs = StreamerPatterns]
    /\ UNCHANGED <<busVars, permVars, stopper, clsVars, auditMeta, deleg, chain, awaiting>>

\* A millisecond passes.
StreamerTick ==
    /\ ui.now < MaxUiClock
    /\ ui' = [ui EXCEPT !.now = @ + 1]
    /\ UNCHANGED <<busVars, permVars, stopper, clsVars, auditMeta, deleg, chain, awaiting>>

\* The bus dispatches an event of the given type: _handle_event runs when a
\* subscription of the streamer matches the type; a rate-limited type is
\* skipped unless should_send, which then records the time; the event is
\* transformed and broadcast.
StreamerDispatch(type, progress) ==
    /\ Len(ui.log) < MaxUiEvents
    /\ LET handled == \E p \in ui.subs : Matches(p, type)
           limited == type \in RATE_LIMITED_EVENTS
           pass == ~limited \/ should_send(ui.last_sent[type], ui.now)
           sent == handled /\ pass /\ ~TransformRaises(type, progress)
       IN ui' = [ui EXCEPT
                   !.last_sent = IF handled /\ limited /\ pass
                                 THEN [@ EXCEPT ![type] = ui.now] ELSE @,
                   !.log = Append(@, [type |-> type, at |-> ui.now,
                                      progress |-> progress,
                                      handled |-> handled, sent |-> sent,
                                      out |-> IF sent
                                              THEN transform_progress(type, progress)
                                              ELSE NoProgress])]
    /\ UNCHANGED <<busVars, permVars, stopper, clsVars, auditMeta, deleg, chain, awaiting>>

Init == InitBus /\ InitPerm /\ InitStop /\ InitClassifier /\ InitAudit
        /\ InitDelegation /\ InitStreamer /\ chain = <<>>
        /\ awaiting = [c \in CallIds |-> [sub |-> 0, ev |-> 0]]

(***************************************************************************)
(* Specification Spec: request/response over the bus.  Leads and workers   *)
(* are handlers subscribed to the delegation and assignment events; the    *)
(* orchestrator and the leads call delegate_to_lead / assign_to_worker     *)
(* without a correlation id, so each call generates its own.               *)
(***************************************************************************)
LeadNames == {"code_lead", "Task_Lead"}
WorkerNames == {"worker", "programmer"}

RpcSubscriptions ==
    {<<"orchestrator.delegate", Handler("lead_complete", n)>> : n \in {"code_lead"}}
    \cup {<<"orchestrator.delegate", Handler("lead_error", n)>> : n \in LeadNames}
    \cup {<<"lead.assign", Handler("worker_complete", n)>> : n \in {"programmer"}}
    \cup {<<"lead.assign", Handler("worker_error", n)>> : n \in WorkerNames}

Next ==
    \/ start /\ UNCHANGED <<permVars, stopper, clsVars, auditMeta, deleg, ui, chain, awaiting>>
    \/ \E sh \in RpcSubscriptions : subscribe(sh[1], sh[2])
          /\ UNCHANGED <<permVars, stopper, clsVars, auditMeta, deleg, ui, chain, awaiting>>
    \/ \E c \in CallIds : delegate_to_lead(c, generate_correlation_id)
          /\ UNCHANGED <<permVars, stopper, clsVars, auditMeta, deleg, ui, chain, awaiting>>
    \/ \E c \in CallIds : assign_to_worker(c, generate_correlation_id, "lead")
          /\ UNCHANGED <<permVars, stopper, clsVars, auditMeta, deleg, ui, chain, awaiting>>
    \/ LoopTake /\ UNCHANGED <<permVars, stopper, clsVars, auditMeta, deleg, ui, chain, awaiting>>
    \/ \E s \in subs : call_handler(s) /\ UNCHANGED <<permVars, stopper, clsVars, auditMeta, deleg, ui, chain, awaiting>>
    \/ DispatchEnd /\ UNCHANGED <<permVars, stopper, clsVars, auditMeta, deleg, ui, chain, awaiting>>
    \/ \E i \in 1..Len(putters) : PutResume(i) /\ UNCHANGED <<permVars, stopper, clsVars, auditMeta, deleg, ui, chain, awaiting>>
    \/ \E i \in 1..Len(putters) : PutTimeout(i) /\ UNCHANGED <<permVars, stopper, clsVars, auditMeta, deleg, ui, chain, awaiting>>
    \/ \E c \in CallIds : CallReturn(c) /\ UNCHANGED <<permVars, stopper, clsVars, auditMeta, deleg, ui, chain, awaiting>>
    \/ \E c \in CallIds : CallTimeout(c) /\ UNCHANGED <<permVars, stopper, clsVars, auditMeta, deleg, ui, chain, awaiting>>
    \/ \E c \in CallIds : CallCleanup(c) /\ UNCHANGED <<permVars, stopper, clsVars, auditMeta, deleg, ui, chain, awaiting>>
    \/ \E c \in CallIds : CallFault(c) /\ UNCHANGED <<permVars, stopper, clsVars, auditMeta, deleg, ui, chain, awaiting>>

Spec == Init /\ [][Next]_vars

(***************************************************************************)
(* Properties of Spec.                                                     *)
(***************************************************************************)
\* The positions in the dispatch order of the events that can resolve call
\* c: its correlation id and one of its response types.
Terminals(c) ==
    {i \in 1..Len(dispLog) : /\ dispLog[i].cid = calls[c].cid
                             /\ dispLog[i].type \in ResponseTypes(calls[c].kind)}

FirstTerminal(c) ==
    dispLog[CHOOSE i \in Terminals(c) : \A j \in Terminals(c) : i <= j]

Returned(c) == calls[c].pc = "done"
TimedOut(c) == Returned(c) /\ calls[c].via = "timeout"
Faulted(c) == calls[c].via = "exception"
Resolved(c) == Returned(c) /\ calls[c].via = "response"

\* C1: a publish_and_wait call is resolved by at most one event, the first
\* matching one in dispatch order: its future holds that event from then on,
\* whatever matching events are dispatched after it, and that event is what
\* the call returns.
C1_FirstMatchingEventWins ==
    \A c \in CallIds :
        /\ futs[c].st = "done" =>
               Terminals(c) # {} /\ futs[c].ev = FirstTerminal(c)
        /\ Returned(c) /\ calls[c].resp # NoEvent =>
               Terminals(c) # {} /\ calls[c].resp = FirstTerminal(c)
        /\ futs[c].st \in {"none", "pending", "done", "cancelled"}

\* A call has returned its response and a second matching event was
\* dispatched as well.
C1_Witness ==
    \E c \in CallIds :
        /\ Resolved(c)
        /\ calls[c].resp # NoEvent
        /\ Cardinality(Terminals(c)) >= 2

\* C2: a publish_and_wait call whose timeout ran out returns None to its
\* caller, which does not raise; from its return on the pending table has no
\* entry under its correlation id, and matching events dispatched afterwards
\* resolve nothing.
C2_TimeoutReturnsNoneAndCleansUp ==
    \A c \in CallIds :
        /\ calls[c].via = "timeout" =>
               /\ futs[c] = [st |-> "cancelled", ev |-> NoEvent]
               /\ calls[c].pc \in {"timedout", "done"}
               /\ \A i \in 1..calls[c].toAt : i \notin Terminals(c)
        /\ TimedOut(c) =>
               /\ calls[c].resp = NoEvent
               /\ pending[calls[c].cid] = NoPending

\* A call has timed out and returned, and a matching event was dispatched
\* after that.
C2_Witness ==
    \E c \in CallIds :
        /\ TimedOut(c)
        /\ \E i \in Terminals(c) : i > calls[c].toAt

\* The handler reports dispatched for call c: events under its correlation
\* id published by a lead or worker handler in reaction to its request.
ErrorReports(c) ==
    {i \in 1..Len(dispLog) : /\ dispLog[i].cid = calls[c].cid
                             /\ dispLog[i].error # Absent}

\* C8: a delegate_to_lead call whose lead.complete response, carrying its
\* correlation id and the result R, is dispatched before the timeout returns
\* success = TRUE with result R; one answered first by lead.error returns
\* success = FALSE with the error text of that event; and a call times out
\* only if no such event was dispatched before the timeout ran out.
C8_DelegationReturnsTheReply ==
    \A c \in CallIds :
        calls[c].kind = "lead" =>
            /\ Resolved(c) =>
                  /\ Terminals(c) # {}
                  /\ LET e == FirstTerminal(c) IN
                     /\ e.type = "lead.complete" =>
                           calls[c].res = [success |-> TRUE, result |-> e.result,
                                           error |-> None]
                     /\ e.type = "lead.error" =>
                           calls[c].res = [success |-> FALSE, result |-> None,
                                           error |-> e.error]
            /\ calls[c].via = "timeout" =>
                  \A i \in 1..calls[c].toAt : i \notin Terminals(c)
            /\ (calls[c].pc = "waiting" /\ Terminals(c) # {}) =>
                  futs[c].st = "done"

\* A lead handler subscribed to orchestrator.delegate has answered the
\* request with lead.complete and the call returned its result; another
\* call was answered with lead.error and returned the error.
C8_Witness ==
    /\ \E c \in CallIds, s \in subs :
          /\ calls[c].kind = "lead" /\ Resolved(c)
          /\ calls[c].res = [success |-> TRUE, result |-> "done", error |-> None]
          /\ s.pattern = "orchestrator.delegate"
          /\ s.handler.kind = "lead_complete"
          /\ calls[c].resp.source = s.handler.name
    /\ \E c \in CallIds :
          /\ calls[c].kind = "lead" /\ Resolved(c)
          /\ calls[c].res = [success |-> FALSE, result |-> None, error |-> "boom"]

\* C9: delegate_to_lead and assign_to_worker never raise: a call that timed
\* out returns success = FALSE with "Delegation timed out" or "Worker timed
\* out", and a call reached by an exception returns success = FALSE with the
\* text of the exception.
C9_CallsNeverRaise ==
    \A c \in CallIds :
        /\ calls[c].pc \in {"idle", "putting", "waiting", "timedout", "done"}
        /\ TimedOut(c) =>
              calls[c].res =
                  [success |-> FALSE, result |-> None,
                   error |-> IF calls[c].kind = "lead" THEN "Delegation timed out"
                             ELSE "Worker timed out"]
        /\ Faulted(c) =>
              /\ Returned(c)
              /\ calls[c].res = [success |-> FALSE, result |-> None,
                                 error |-> "RuntimeError"]

\* A delegation has timed out, and an assignment was reached by an
\* exception, and both have returned.
C9_Witness ==
    \E c, d \in CallIds :
        /\ calls[c].kind = "lead" /\ TimedOut(c)
        /\ calls[d].kind = "worker" /\ Faulted(d) /\ Returned(d)

\* C10: an error report carrying the correlation id of an outstanding call
\* resolves that call, for every source name: once the report has been
\* dispatched the call no longer waits on a pending future, and when it
\* returns it returns success = FALSE with the reported error.
C10_ErrorReportResolvesTheCall ==
    \A c \in CallIds :
        /\ (calls[c].pc = "waiting" /\ ErrorReports(c) # {}) =>
              futs[c].st = "done"
        /\ \A i \in ErrorReports(c) :
              (i <= calls[c].toAt /\ \A j \in Terminals(c) : i <= j) =>
                  (Returned(c) =>
                      calls[c].res = [success |-> FALSE, result |-> None,
                                      error |-> dispLog[i].error])

(***************************************************************************)
(* Specification SpecFlow: publish/subscribe.  Producers publish progress  *)
(* and error events at any time, before or after the bus is started;       *)
(* handlers that return, raise, or publish in turn are subscribed under    *)
(* exact and glob patterns.                                                *)
(***************************************************************************)
FlowSubscriptions ==
    { <<"*", Handler("raise", "external")>>,
      <<"worker.*", Handler("noop", "external")>>,
      <<"worker.progress", Handler("forward", "lead")>> }

FlowEventTypes == {"worker.progress", "tool.error"}

NextFlow ==
    \/ start /\ UNCHANGED <<permVars, stopper, clsVars, auditMeta, deleg, ui, chain, awaiting>>
    \/ \E sh \in FlowSubscriptions : subscribe(sh[1], sh[2])
          /\ UNCHANGED <<permVars, stopper, clsVars, auditMeta, deleg, ui, chain, awaiting>>
    \/ \E t \in FlowEventTypes : ExtPublish(t, "external", NoCid, Absent, Absent)
          /\ UNCHANGED <<permVars, stopper, clsVars, auditMeta, deleg, ui, chain, awaiting>>
    \/ LoopTake /\ UNCHANGED <<permVars, stopper, clsVars, auditMeta, deleg, ui, chain, awaiting>>
    \/ \E s \in subs : call_handler(s) /\ UNCHANGED <<permVars, stopper, clsVars, auditMeta, deleg, ui, chain, awaiting>>
    \/ DispatchEnd /\ UNCHANGED <<permVars, stopper, clsVars, auditMeta, deleg, ui, chain, awaiting>>
    \/ \E i \in 1..Len(putters) : PutResume(i) /\ UNCHANGED <<permVars, stopper, clsVars, auditMeta, deleg, ui, chain, awaiting>>
    \/ \E i \in 1..Len(putters) : PutTimeout(i) /\ UNCHANGED <<permVars, stopper, clsVars, auditMeta, deleg, ui, chain, awaiting>>

SpecFlow == Init /\ [][NextFlow]_vars

(***************************************************************************)
(* Properties of SpecFlow.                                                 *)
(***************************************************************************)
Ids(seq) == [i \in 1..Len(seq) |-> seq[i].id]
IdSet(seq) == {seq[i].id : i \in 1..Len(seq)}

\* C5: the consumer loop dispatches the events accepted by publish in
\* exactly the order in which they were put on the queue, whatever the
\* interleaving of the producers: the dispatched events are a prefix of the
\* enqueue order and the queue holds the rest of it.
C5_DispatchInEnqueueOrder ==
    /\ Len(dispLog) + Len(queue) = Len(enqLog)
    /\ Ids(dispLog) = SubSeq(enqLog, 1, Len(dispLog))
    /\ Ids(queue) = SubSeq(enqLog, Len(dispLog) + 1, Len(enqLog))

\* Three events were dispatched, one of them enqueued after an event that
\* was published later (its producer was suspended on the full queue).
C5_Witness ==
    /\ Len(dispLog) >= 3
    /\ \E i, j \in 1..Len(dispLog) : i < j /\ dispLog[i].id > dispLog[j].id

SubById(sid) == CHOOSE s \in allSubs : s.id = sid

\* The handler invocations that raised.
FailedCalls == {p \in invoked : SubById(p[2]).handler.kind = "raise"}

\* C6: a handler that raises stops neither the other handlers matching the
\* event nor the loop: every matching handler is invoked before the
\* dispatch ends, errors counts one per failing invocation, the loop stays
\* alive, and the failing handler stays subscribed.
C6_HandlerErrorsAreIsolated ==
    /\ loop # "dispatch" => matched \subseteq invoked
    /\ loop = "dispatch" =>
           matched \ invoked = {<<cur.id, s.id>> : s \in todo}
    /\ stats.errors = Cardinality(FailedCalls)
    /\ subs = allSubs
    /\ running => loop \in {"get", "dispatch"}

\* An event matched a failing handler and another one, both were invoked,
\* and the failing handler was invoked again for a later event.
C6_Witness ==
    \E p \in FailedCalls, q \in invoked \ FailedCalls, r \in FailedCalls :
        /\ p[1] = q[1]
        /\ r[2] = p[2]
        /\ \E i, j \in 1..Len(dispLog) :
              i < j /\ dispLog[i].id = p[1] /\ dispLog[j].id = r[1]
        /\ loop = "get"

\* C7: a publish that finds the queue full until its timeout drops the
\* event: events_dropped counts it and events_published does not, the
\* publisher goes on without an exception (a publishing handler ends as a
\* successful call), and the event is never enqueued, dispatched or put in
\* the history.
C7_FullQueueDropsTheEvent ==
    /\ stats.events_dropped = Cardinality(dropLog)
    /\ stats.events_published = Len(enqLog)
    /\ \A e \in dropLog :
          /\ e.id \notin {enqLog[i] : i \in 1..Len(enqLog)}
          /\ e.id \notin IdSet(queue) \cup IdSet(dispLog) \cup IdSet(history)
          /\ \A i \in 1..Len(putters) : putters[i].ev.id # e.id
    /\ stats.errors = Cardinality(FailedCalls)
    /\ stats.handlers_called
           + Cardinality({i \in 1..Len(putters) : putters[i].owner.kind = "handler"})
           = Cardinality(invoked \ FailedCalls)

\* A producer's event and a handler's event were dropped, the handler's
\* dispatch has ended, and events went on being dispatched.
C7_Witness ==
    /\ \E e \in dropLog : e.source = "external"
    /\ \E e \in dropLog : e.source = "lead"
    /\ loop = "get"
    /\ Len(dispLog) >= 2

(***************************************************************************)
(* Specification SpecPerm: the permission manager.  A manager is built     *)
(* with one of the presets or a custom configuration, an approval callback *)
(* is registered or not, and tools are run through                         *)
(* execute_with_permission; the callback answers, raises, or lets the      *)
(* timeout run out; the audit store accepts every write.                   *)
(***************************************************************************)
Presets == {"strict", "moderate", "relaxed"}

NextPerm ==
    \/ \E pr \in Presets, dbg \in BOOLEAN :
      PermissionManager(get_preset_config(pr), dbg) /\ UNCHANGED <<busVars, stopper, clsVars, auditMeta, deleg, ui, chain, awaiting>>
    \/ \E cfg \in CustomConfigs, dbg \in BOOLEAN : PermissionManager(cfg, dbg)
          /\ UNCHANGED <<busVars, stopper, clsVars, auditMeta, deleg, ui, chain, awaiting>>
    \/ set_approval_callback /\ UNCHANGED <<busVars, stopper, clsVars, auditMeta, deleg, ui, chain, awaiting>>
    \/ \E t \in Tools : \E inp \in ToolInputs(t) : execute_with_permission(t, inp)
          /\ UNCHANGED <<busVars, stopper, clsVars, auditMeta, deleg, ui, chain, awaiting>>
    \/ \E t \in Tools, r \in RiskLevels : request_approval(t, r)
          /\ UNCHANGED <<busVars, stopper, clsVars, auditMeta, deleg, ui, chain, awaiting>>
    \/ \E b \in BOOLEAN : CallbackReturns(b) /\ UNCHANGED <<busVars, stopper, clsVars, auditMeta, deleg, ui, chain, awaiting>>
    \/ CallbackTimeout /\ UNCHANGED <<busVars, stopper, clsVars, auditMeta, deleg, ui, chain, awaiting>>
    \/ CallbackRaises /\ UNCHANGED <<busVars, stopper, clsVars, auditMeta, deleg, ui, chain, awaiting>>
    \/ ExecutorReturns /\ UNCHANGED <<busVars, stopper, clsVars, auditMeta, deleg, ui, chain, awaiting>>
    \/ ExecutorRaises /\ UNCHANGED <<busVars, stopper, clsVars, auditMeta, deleg, ui, chain, awaiting>>

SpecPerm == Init /\ [][NextPerm]_vars

(***************************************************************************)
(* Properties of SpecPerm.                                                 *)
(***************************************************************************)
AuditActions == {audit[i].action : i \in 1..Len(audit)}

\* C3: execute_with_permission invokes the executor only if check_permission
\* allowed the operation, or required approval and request_approval returned
\* True; in every other case the executor is not invoked and the call
\* returns (False, "Permission denied: <reason>").
C3_ExecutorOnlyWhenPermitted ==
    /\ op.kind = "execute" =>
           op.result = check_permission(op.tool, op.input).result
    /\ op.ran =>
           /\ op.kind = "execute"
           /\ \/ op.result.allowed
              \/ op.result.requires_approval /\ op.appr = "True"
    /\ (op.kind = "execute" /\ op.pc = "done" /\ ~op.ran) =>
           /\ ~op.result.allowed
           /\ op.appr # "True"
           /\ op.ret = [success |-> FALSE, text |-> "Permission denied: ",
                        detail |-> op.result.reason]
    /\ (op.kind = "execute" /\ op.pc = "done" /\ op.ran) =>
           op.ret.text # "Permission denied: "

\* One operation was denied outright, and the next one needed approval, got
\* it, ran its executor and returned the output.
C3_Witness ==
    /\ "tool_denied" \in AuditActions
    /\ op.kind = "execute" /\ op.pc = "done" /\ op.ran
    /\ op.result.requires_approval /\ ~op.result.allowed
    /\ op.appr = "True"
    /\ op.ret.success

\* C4: request_approval returns True only when the registered callback
\* returned True before the approval timeout; with no callback registered,
\* on timeout and when the callback raises it returns False and does not
\* raise.
C4_ApprovalFailsClosed ==
    /\ op.appr \in {"unset", "True", "False"}
    /\ op.appr = "True" => op.cb = "true"
    /\ op.cb \in {"no_callback", "timeout", "raise", "false"} => op.appr = "False"
    /\ op.pc = "approving" => (callback /\ op.cb = "unset" /\ op.appr = "unset")
    /\ (op.result.requires_approval /\ op.pc \in {"executing", "done"}) =>
           op.appr # "unset"

\* An approval timed out, and in the next one the callback raised: both
\* returned False.
C4_Witness ==
    /\ "approval_timeout" \in AuditActions
    /\ op.pc = "done"
    /\ op.cb = "raise"
    /\ op.appr = "False"
    /\ ~op.ran

(***************************************************************************)
(* Specification SpecProgress: requests answered by progress reports.      *)
(* Leads and workers report progress under the correlation id of the       *)
(* request, and a producer publishes lead.complete events under            *)
(* correlation ids of its own choice.                                      *)
(***************************************************************************)
MaxStray == 1    \* completion events the outside producer publishes

\* The events of the outside producer that exist so far.
StrayIds ==
    {e.id : e \in {x \in {queue[i] : i \in 1..Len(queue)}
                        \cup {putters[i].ev : i \in 1..Len(putters)}
                        \cup {dispLog[i] : i \in 1..Len(dispLog)}
                        \cup dropLog : x.source = "external"}}

\* A producer publishes a lead.complete event under correlation id k.
StrayComplete(k) ==
    /\ Cardinality(StrayIds) < MaxStray
    /\ ExtPublish("lead.complete", "external", k, "stray", Absent)

ProgressSubscriptions ==
    { <<"orchestrator.delegate", Handler("lead_progress", "code_lead")>>,
      <<"lead.assign", Handler("worker_progress", "programmer")>> }

NextProgress ==
    \/ start /\ UNCHANGED <<permVars, stopper, clsVars, auditMeta, deleg, ui, chain, awaiting>>
    \/ \E sh \in ProgressSubscriptions : subscribe(sh[1], sh[2])
          /\ UNCHANGED <<permVars, stopper, clsVars, auditMeta, deleg, ui, chain, awaiting>>
    \/ \E c \in CallIds : delegate_to_lead(c, generate_correlation_id)
          /\ UNCHANGED <<permVars, stopper, clsVars, auditMeta, deleg, ui, chain, awaiting>>
    \/ \E c \in CallIds : assign_to_worker(c, generate_correlation_id, "lead")
          /\ UNCHANGED <<permVars, stopper, clsVars, auditMeta, deleg, ui, chain, awaiting>>
    \/ \E k \in CorrIds : StrayComplete(k) /\ UNCHANGED <<permVars, stopper, clsVars, auditMeta, deleg, ui, chain, awaiting>>
    \/ LoopTake /\ UNCHANGED <<permVars, stopper, clsVars, auditMeta, deleg, ui, chain, awaiting>>
    \/ \E s \in subs : call_handler(s) /\ UNCHANGED <<permVars, stopper, clsVars, auditMeta, deleg, ui, chain, awaiting>>
    \/ DispatchEnd /\ UNCHANGED <<permVars, stopper, clsVars, auditMeta, deleg, ui, chain, awaiting>>
    \/ \E i \in 1..Len(putters) : PutResume(i) /\ UNCHANGED <<permVars, stopper, clsVars, auditMeta, deleg, ui, chain, awaiting>>
    \/ \E i \in 1..Len(putters) : PutTimeout(i) /\ UNCHANGED <<permVars, stopper, clsVars, auditMeta, deleg, ui, chain, awaiting>>
    \/ \E c \in CallIds : CallReturn(c) /\ UNCHANGED <<permVars, stopper, clsVars, auditMeta, deleg, ui, chain, awaiting>>
    \/ \E c \in CallIds : CallTimeout(c) /\ UNCHANGED <<permVars, stopper, clsVars, auditMeta, deleg, ui, chain, awaiting>>
    \/ \E c \in CallIds : CallCleanup(c) /\ UNCHANGED <<permVars, stopper, clsVars, auditMeta, deleg, ui, chain, awaiting>>

SpecProgress == Init /\ [][NextProgress]_vars

ProgressTypes == {"lead.progress", "worker.progress"}

\* C11: a pending publish_and_wait is resolved only by an event that
\* carries its correlation id and whose type is one of its response types:
\* progress events under the same correlation id, and events under another
\* correlation id, leave the future unresolved.
C11_OnlyMatchingEventsResolve ==
    \A c \in CallIds :
        /\ futs[c].st = "done" =>
              /\ futs[c].ev.cid = calls[c].cid
              /\ futs[c].ev.type \in ResponseTypes(calls[c].kind)
              /\ futs[c].ev.type \notin ProgressTypes
        /\ Terminals(c) = {} => futs[c].st \in {"none", "pending", "cancelled"}
        /\ (Returned(c) /\ Terminals(c) = {}) => ~calls[c].res.success

\* A call timed out although a progress report under its correlation id
\* and a completion event under another correlation id had been dispatched
\* while it waited.
C11_Witness ==
    \E c \in CallIds :
        /\ TimedOut(c)
        /\ \E i \in 1..calls[c].toAt :
              dispLog[i].cid = calls[c].cid /\ dispLog[i].type \in ProgressTypes
        /\ \E i \in 1..calls[c].toAt :
              /\ dispLog[i].cid # calls[c].cid
              /\ dispLog[i].type \in ResponseTypes(calls[c].kind)

(***************************************************************************)
(* Specification SpecMatch: subscriptions by pattern.  No middleware is    *)
(* installed; producers publish events of three types and the handlers     *)
(* publish nothing.                                                        *)
(***************************************************************************)
MaxMatchEvents == 3    \* events the producers publish
MatchPatterns ==
    {"*", "worker.*", "worker.progress", "*.progress", "lead.*", "w?rker.*"}
MatchEventTypes == {"worker.progress", "worker.complete", "lead.progress"}

\* A producer publishes an event of type t.
Produce(t) ==
    /\ nextId < MaxMatchEvents
    /\ ExtPublish(t, "external", NoCid, Absent, Absent)

NextMatch ==
    \/ start /\ UNCHANGED <<permVars, stopper, clsVars, auditMeta, deleg, ui, chain, awaiting>>
    \/ \E p \in MatchPatterns : subscribe(p, Handler("noop", "external"))
          /\ UNCHANGED <<permVars, stopper, clsVars, auditMeta, deleg, ui, chain, awaiting>>
    \/ \E t \in MatchEventTypes : Produce(t) /\ UNCHANGED <<permVars, stopper, clsVars, auditMeta, deleg, ui, chain, awaiting>>
    \/ LoopTake /\ UNCHANGED <<permVars, stopper, clsVars, auditMeta, deleg, ui, chain, awaiting>>
    \/ \E s \in subs : call_handler(s) /\ UNCHANGED <<permVars, stopper, clsVars, auditMeta, deleg, ui, chain, awaiting>>
    \/ DispatchEnd /\ UNCHANGED <<permVars, stopper, clsVars, auditMeta, deleg, ui, chain, awaiting>>
    \/ \E i \in 1..Len(putters) : PutResume(i) /\ UNCHANGED <<permVars, stopper, clsVars, auditMeta, deleg, ui, chain, awaiting>>
    \/ \E i \in 1..Len(putters) : PutTimeout(i) /\ UNCHANGED <<permVars, stopper, clsVars, auditMeta, deleg, ui, chain, awaiting>>

SpecMatch == Init /\ [][NextMatch]_vars

\* Shell-glob matching of a whole name, stated by position for patterns
\* with at most one `*`: the pattern's characters before the star are the
\* name's first characters, those after it are the name's last characters,
\* and `?` stands for any one character.
ShellGlob(pattern, name) ==
    LET p == Chars(pattern)
        t == Chars(name)
        stars == {i \in 1..Len(p) : p[i] = "*"}
        Same(a, b) == a = "?" \/ a = b
    IN  IF stars = {}
        THEN Len(p) = Len(t) /\ \A i \in 1..Len(p) : Same(p[i], t[i])
        ELSE LET k == CHOOSE i \in stars : TRUE
                 off == Len(t) - Len(p)
             IN  /\ Cardinality(stars) = 1
                 /\ off >= -1
                 /\ \A i \in 1..(k - 1) : Same(p[i], t[i])
                 /\ \A i \in (k + 1)..Len(p) : Same(p[i], t[i + off])

\* The subscriptions the claim says an event of type T goes to.
ShouldFire(pattern, T) ==
    \/ pattern = "*"
    \/ pattern = T
    \/ ShellGlob(pattern, T)

EventById(id) == CHOOSE e \in {dispLog[i] : i \in 1..Len(dispLog)} : e.id = id

\* C12: with no middleware installed, when an event of type T is taken for
\* dispatch the handlers run are exactly those of the subscriptions whose
\* pattern is "*", is T, or matches T as a shell glob: the dispatch
\* schedules exactly those subscriptions, every scheduled handler has been
\* invoked when the dispatch ends, and no other handler is ever invoked
\* for the event.
C12_HandlerRunsIffPatternMatches ==
    /\ [](middleware = <<>> =>
            \A pr \in invoked :
                \E s \in allSubs :
                    s.id = pr[2] /\ ShouldFire(s.pattern, EventById(pr[1]).type))
    /\ [][ /\ (middleware = <<>> /\ dispLog' # dispLog) =>
                LET ev == dispLog'[Len(dispLog')]
                    due == {s \in subs : ShouldFire(s.pattern, ev.type)}
                IN  IF due = {} THEN loop' # "dispatch"
                    ELSE loop' = "dispatch" /\ cur' = ev /\ todo' = due
                                            /\ curSubs' = due
           /\ (loop = "dispatch" /\ loop' # "dispatch") =>
                {s.id : s \in curSubs} = {pr[2] : pr \in {q \in invoked : q[1] = cur.id}}
         ]_vars

\* A worker.complete event was dispatched with a "worker.*" and a "lead.*"
\* subscription in place: the first handler ran, the second did not; and a
\* lead.progress event was dispatched without the "worker.*" handler.
C12_Witness ==
    /\ loop # "dispatch"
    /\ \E e \in {dispLog[i] : i \in 1..Len(dispLog)} :
       \E s1, s2 \in subs :
          /\ e.type = "worker.complete"
          /\ s1.pattern = "worker.*" /\ <<e.id, s1.id>> \in invoked
          /\ s2.pattern = "lead.*" /\ <<e.id, s2.id>> \notin invoked
    /\ \E e \in {dispLog[i] : i \in 1..Len(dispLog)} :
       \E s1, s2 \in subs :
          /\ e.type = "lead.progress"
          /\ s1.pattern = "worker.*" /\ <<e.id, s1.id>> \notin invoked
          /\ s2.pattern = "lead.*" /\ <<e.id, s2.id>> \in invoked

(***************************************************************************)
(* Specification SpecMiddleware: a pipeline of middleware in front of the  *)
(* handlers.  Middleware is installed at any time; producers publish       *)
(* events, some of which no subscription matches.                          *)
(***************************************************************************)
MiddlewareKinds == {"pass", "block", "raise"}
MiddlewarePatterns == {"*", "worker.*"}
MiddlewareEventTypes == {"worker.progress", "tool.error"}

NextMiddleware ==
    \/ start /\ UNCHANGED <<permVars, stopper, clsVars, auditMeta, deleg, ui, chain, awaiting>>
    \/ \E p \in MiddlewarePatterns : subscribe(p, Handler("noop", "external"))
          /\ UNCHANGED <<permVars, stopper, clsVars, auditMeta, deleg, ui, chain, awaiting>>
    \/ \E k \in MiddlewareKinds : use(k) /\ UNCHANGED <<permVars, stopper, clsVars, auditMeta, deleg, ui, chain, awaiting>>
    \/ \E t \in MiddlewareEventTypes : Produce(t) /\ UNCHANGED <<permVars, stopper, clsVars, auditMeta, deleg, ui, chain, awaiting>>
    \/ LoopTake /\ UNCHANGED <<permVars, stopper, clsVars, auditMeta, deleg, ui, chain, awaiting>>
    \/ \E s \in subs : call_handler(s) /\ UNCHANGED <<permVars, stopper, clsVars, auditMeta, deleg, ui, chain, awaiting>>
    \/ DispatchEnd /\ UNCHANGED <<permVars, stopper, clsVars, auditMeta, deleg, ui, chain, awaiting>>
    \/ \E i \in 1..Len(putters) : PutResume(i) /\ UNCHANGED <<permVars, stopper, clsVars, auditMeta, deleg, ui, chain, awaiting>>
    \/ \E i \in 1..Len(putters) : PutTimeout(i) /\ UNCHANGED <<permVars, stopper, clsVars, auditMeta, deleg, ui, chain, awaiting>>

SpecMiddleware == Init /\ [][NextMiddleware]_vars

\* Some middleware of the pipeline is run and returns without calling next:
\* a "block" with only "pass" in front of it.
Blocks ==
    \E i \in 1..Len(middleware) :
        /\ middleware[i] = "block"
        /\ \A j \in 1..(i - 1) : middleware[j] = "pass"

\* C13: when the pipeline holds a middleware that returns without calling
\* next(event), an event taken for dispatch reaches no handler (nothing is
\* scheduled, nothing is invoked, the event never becomes the one being
\* handled) and the consumer loop goes on to the next event, counting the
\* event as processed; and handlers are only ever invoked for the event
\* being handled.
C13_BlockingMiddlewareStopsTheEvent ==
    [][ /\ (Blocks /\ dispLog' # dispLog) =>
              /\ invoked' = invoked
              /\ todo' = {} /\ cur' = NoEvent
              /\ loop' = (IF running THEN "get" ELSE "exited")
              /\ stats'.errors = stats.errors
              /\ history'[Len(history')] = dispLog'[Len(dispLog')]
        /\ invoked' # invoked =>
              /\ loop = "dispatch"
              /\ \A pr \in invoked' \ invoked : pr[1] = cur.id
      ]_vars

\* A subscription "*" handled the first event; then <<"pass", "block">> was
\* installed, and the second and the third event were taken from the queue
\* without any handler being invoked.
C13_Witness ==
    /\ middleware = <<"pass", "block">>
    /\ Len(dispLog) = 3
    /\ loop = "get"
    /\ \E s \in subs :
          /\ s.pattern = "*"
          /\ <<dispLog[1].id, s.id>> \in invoked
          /\ \A i \in {2, 3} : \A z \in allSubs : <<dispLog[i].id, z.id>> \notin invoked

(***************************************************************************)
(* Specification SpecStop: the bus is started once and stopped once while  *)
(* producers publish.                                                      *)
(***************************************************************************)
StopEventTypes == {"worker.progress", "tool.error"}

\* bus.start() by the owner of the bus, before it stops the bus.
StartOnce ==
    /\ stopper.pc = "idle"
    /\ start

NextStop ==
    \/ StartOnce /\ UNCHANGED <<permVars, stopper, clsVars, auditMeta, deleg, ui, chain, awaiting>>
    \/ subscribe("worker.*", Handler("noop", "external"))
          /\ UNCHANGED <<permVars, stopper, clsVars, auditMeta, deleg, ui, chain, awaiting>>
    \/ \E t \in StopEventTypes : ExtPublish(t, "external", NoCid, Absent, Absent)
          /\ UNCHANGED <<permVars, stopper, clsVars, auditMeta, deleg, ui, chain, awaiting>>
    \/ LoopTake /\ UNCHANGED <<permVars, stopper, clsVars, auditMeta, deleg, ui, chain, awaiting>>
    \/ LoopExit /\ UNCHANGED <<permVars, stopper, clsVars, auditMeta, deleg, ui, chain, awaiting>>
    \/ \E s \in subs : call_handler(s) /\ UNCHANGED <<permVars, stopper, clsVars, auditMeta, deleg, ui, chain, awaiting>>
    \/ DispatchEnd /\ UNCHANGED <<permVars, stopper, clsVars, auditMeta, deleg, ui, chain, awaiting>>
    \/ \E i \in 1..Len(putters) : PutResume(i) /\ UNCHANGED <<permVars, stopper, clsVars, auditMeta, deleg, ui, chain, awaiting>>
    \/ \E i \in 1..Len(putters) : PutTimeout(i) /\ UNCHANGED <<permVars, stopper, clsVars, auditMeta, deleg, ui, chain, awaiting>>
    \/ stop /\ UNCHANGED <<permVars, clsVars, auditMeta, deleg, ui, chain, awaiting>>
    \/ StopJoined /\ UNCHANGED <<permVars, clsVars, auditMeta, deleg, ui, chain, awaiting>>
    \/ StopJoinTimeout /\ UNCHANGED <<permVars, clsVars, auditMeta, deleg, ui, chain, awaiting>>
    \/ StopCancel /\ UNCHANGED <<permVars, clsVars, auditMeta, deleg, ui, chain, awaiting>>

SpecStop == Init /\ [][NextStop]_vars

\* The events publish had put on the queue when stop was called.
EnqueuedBeforeStop == {enqLog[i] : i \in 1..stopper.enq}

\* C14: stop drains the queue before it cancels the processor task: when
\* stop goes on to cancel, every event that was put on the queue before
\* stop was called has been dispatched.
C14_StopDrainsTheQueue ==
    stopper.pc \in {"cancelling", "stopped"} =>
        EnqueuedBeforeStop \subseteq IdSet(dispLog)

(***************************************************************************)
(* Properties of the history buffer, checked under SpecMatch.              *)
(***************************************************************************)
\* The last n elements of a sequence, in order.
LastOf(seq, n) == SubSeq(seq, Len(seq) - n + 1, Len(seq))

\* C15: the history never holds more than history_size events, and once
\* more than history_size events have been dispatched, get_history with a
\* limit above the capacity returns exactly the history_size most recently
\* dispatched events, oldest first.
C15_HistoryKeepsTheMostRecent ==
    /\ Len(history) <= HistorySize
    /\ Len(dispLog) > HistorySize =>
          \A N \in (HistorySize + 1)..(HistorySize + 2) :
              /\ Len(get_history(N)) = HistorySize
              /\ get_history(N) = LastOf(dispLog, HistorySize)

\* More events than the history holds have been dispatched, and the oldest
\* of them is no longer returned.
C15_Witness ==
    /\ Len(dispLog) > HistorySize
    /\ get_history(HistorySize + 1) # <<>>
    /\ \A i \in 1..Len(get_history(HistorySize + 1)) :
          get_history(HistorySize + 1)[i].id # dispLog[1].id

(***************************************************************************)
(* Specification SpecCheck: check_permission on its own.  A manager is     *)
(* constructed with one of the presets or with a configuration made by     *)
(* create_custom_preset, and check_permission is called on tools and       *)
(* inputs; op holds the last call and its result.                          *)
(***************************************************************************)
\* Custom configurations: the defaults with one override, overrides of all
\* three kinds over the usual buckets, and buckets chosen by the caller.
CheckConfigs ==
    CustomConfigs \cup
    { create_custom_preset({}, {}, {},
                           [NoOverrides EXCEPT !["read_file"] = "approve"]),
      create_custom_preset({"high", "critical"}, {}, {"low", "medium"},
                           [NoOverrides EXCEPT !["read_file"] = "deny",
                                               !["write_file"] = "approve",
                                               !["deploy"] = "allow"]),
      create_custom_preset({"medium", "high"}, {"high", "critical"},
                           {"low", "medium"}, NoOverrides) }

\* await manager.check_permission(agent, tool, input)
CheckPermissionCall(tool, input) ==
    /\ config.name # "none"
    /\ op.pc \in {"idle", "done"}
    /\ opCount < MaxOps
    /\ opCount' = opCount + 1
    /\ LET chk == check_permission(tool, input)
       IN /\ op' = [IdleOp EXCEPT !.kind = "check", !.pc = "done", !.tool = tool,
                                  !.input = input, !.result = chk.result]
          /\ audit' = LogAll(audit, chk.rows)
    /\ UNCHANGED <<config, debug, callback>>

NextCheck ==
    \/ \E pr \in Presets, dbg \in BOOLEAN :
          PermissionManager(get_preset_config(pr), dbg)
          /\ UNCHANGED <<busVars, stopper, clsVars, auditMeta, deleg, ui, chain, awaiting>>
    \/ \E cfg \in CheckConfigs, dbg \in BOOLEAN : PermissionManager(cfg, dbg)
          /\ UNCHANGED <<busVars, stopper, clsVars, auditMeta, deleg, ui, chain, awaiting>>
    \/ \E t \in Tools : \E inp \in ToolInputs(t) : CheckPermissionCall(t, inp)
          /\ UNCHANGED <<busVars, stopper, clsVars, auditMeta, deleg, ui, chain, awaiting>>

SpecCheck == Init /\ [][NextCheck]_vars

\* The override of the checked tool in the active configuration.
OverrideOf(tool) == config.tool_overrides[tool]

\* C16: when the active configuration has an override for the tool, the
\* override decides the result of check_permission whatever the risk level:
\* "allow" gives allowed, "deny" gives not allowed and no approval, "approve"
\* gives requires_approval.
C16_OverrideDecides ==
    op.kind = "check" =>
        /\ OverrideOf(op.tool) = "allow" => op.result.allowed
        /\ OverrideOf(op.tool) = "deny" =>
              ~op.result.allowed /\ ~op.result.requires_approval
        /\ OverrideOf(op.tool) = "approve" => op.result.requires_approval

\* The lowest level for which the spec says the preset asks for approval.
ApprovalFrom(preset) ==
    CASE preset = "strict" -> "medium"
      [] preset = "moderate" -> "high"
      [] preset = "relaxed" -> "critical"

\* C17: with debug mode off and no override for the tool, check_permission
\* under STRICT, MODERATE or RELAXED returns requires_approval exactly when
\* the risk level is MEDIUM or above, HIGH or above, CRITICAL respectively,
\* and allows every lower level without approval.
C17_ApprovalThresholds ==
    (/\ op.kind = "check"
     /\ ~debug
     /\ config.name \in Presets
     /\ OverrideOf(op.tool) = "none") =>
        LET atLeast == LevelIndex(op.result.risk_level)
                          >= LevelIndex(ApprovalFrom(config.name))
        IN  /\ op.result.requires_approval <=> atLeast
            /\ ~atLeast => op.result.allowed /\ ~op.result.requires_approval

\* Under STRICT with debug off, a MEDIUM tool without override was checked
\* and requires approval.
C17_Witness ==
    /\ op.kind = "check"
    /\ ~debug
    /\ config.name = "strict"
    /\ OverrideOf(op.tool) = "none"
    /\ op.result.risk_level = "medium"
    /\ op.result.requires_approval

\* The buckets of the active configuration that contain a level.
BucketsOf(level) ==
    {b \in {"auto_allow", "auto_deny", "require_approval"} :
        \/ b = "auto_allow" /\ level \in config.auto_allow
        \/ b = "auto_deny" /\ level \in config.auto_deny
        \/ b = "require_approval" /\ level \in config.require_approval}

\* C18: in every configuration a manager can hold (the three presets and
\* whatever create_custom_preset returns) each risk level is in exactly one
\* of auto_allow, auto_deny and require_approval, and check_permission never
\* returns through its final default-allow branch.
C18_EveryLevelInOneBucket ==
    /\ config.name # "none" =>
          \A level \in RiskLevels : Cardinality(BucketsOf(level)) = 1
    /\ op.kind = "check" =>
          op.result.reason # "permitted by preset configuration"

(***************************************************************************)
(* Specification SpecClassify: the risk classifier.  Tools are registered  *)
(* with a level, escalation patterns are added, and classify is called on  *)
(* tools and inputs.                                                       *)
(***************************************************************************)
RegisterTools == {"write_file", "execute_command", "deploy"}
RegisterLevels == {"low", "critical"}
AddTools == {"read_file", "write_file", "execute_command"}
AddPatterns ==
    { [kind |-> "prefix", text |-> "/etc/", level |-> "critical"],
      [kind |-> "word", text |-> "ls", level |-> "critical"] }

\* The inputs classify is called with: those of ToolInputs, and for every
\* tool a dict with a "path".
ClassifyInputs(tool) ==
    ToolInputs(tool) \cup {[key |-> "path", value |-> "/etc/passwd"],
                           [key |-> "path", value |-> "/tmp/a.txt"]}

NextClassify ==
    \/ \E t \in RegisterTools, l \in RegisterLevels : register_tool_risk(t, l)
          /\ UNCHANGED <<busVars, permVars, stopper, auditMeta, deleg, ui, chain, awaiting>>
    \/ \E t \in AddTools, p \in AddPatterns : add_escalation_pattern(t, p)
          /\ UNCHANGED <<busVars, permVars, stopper, auditMeta, deleg, ui, chain, awaiting>>
    \/ \E t \in Tools : \E inp \in ClassifyInputs(t) : Classify(t, inp)
          /\ UNCHANGED <<busVars, permVars, stopper, auditMeta, deleg, ui, chain, awaiting>>

SpecClassify == Init /\ [][NextClassify]_vars

\* The input field whose value the escalation patterns of a tool are about.
RelevantField(tool) ==
    CASE tool = "write_file" -> "path"
      [] tool = "execute_command" -> "command"
      [] OTHER -> "<no field>"

\* The levels of the escalation patterns of the tool that match the
\* relevant field of the input.
MatchedLevels(tool, input) ==
    {patterns_of(tool)[i].level : i \in
        {j \in 1..Len(patterns_of(tool)) :
            /\ input.key = RelevantField(tool)
            /\ search(patterns_of(tool)[j], input.value)}}

\* The highest of a non-empty set of levels.
MaxLevel(levels) ==
    CHOOSE l \in levels : \A m \in levels : LevelIndex(l) >= LevelIndex(m)

\* C19: classify returns the maximum of the tool's base level (HIGH for a
\* tool that is not in the risk table) and the levels of the tool's
\* escalation patterns that match the relevant field of the input: the base
\* level when nothing matches, and never a level below the base.
C19_ClassifyIsTheMaximum ==
    classified.tool # "none" =>
        LET tool == classified.tool
            base == base_level(tool)
            hits == MatchedLevels(tool, classified.input)
        IN  /\ classified.level = MaxLevel({base} \cup hits)
            /\ hits = {} => classified.level = base
            /\ LevelIndex(classified.level) >= LevelIndex(base)
            /\ (tool = "deploy" /\ toolRisk[tool] = "unset") => base = "high"

\* classify returned a level above the base because a pattern matched,
\* although another matching pattern or the base was lower.
C19_Witness ==
    /\ classified.tool = "execute_command"
    /\ base_level(classified.tool) = "low"
    /\ MatchedLevels(classified.tool, classified.input) = {"medium"}
    /\ classified.level = "medium"

\* The patterns added for the tool that map to CRITICAL and match a value
\* of the input.
AddedCriticalHits(tool, input) ==
    {i \in 1..Len(addedPatterns[tool]) :
        /\ addedPatterns[tool][i].level = "critical"
        /\ input # NoInput
        /\ search(addedPatterns[tool][i], input.value)}

\* C20: for a tool whose base level is LOW and for which
\* add_escalation_pattern has added a rule mapping a pattern to CRITICAL,
\* classify on an input that matches the pattern returns CRITICAL.
C20_AddedRuleEscalatesToCritical ==
    (/\ classified.tool # "none"
     /\ base_level(classified.tool) = "low"
     /\ AddedCriticalHits(classified.tool, classified.input) # {}) =>
        classified.level = "critical"

(***************************************************************************)
(* Specification SpecBypass: execute_with_permission under configurations  *)
(* with and without debug_mode_bypass, with settings.debug on or off.      *)
(***************************************************************************)
\* create_custom_preset(..., debug_mode_bypass=True)
WithBypass(cfg) == [cfg EXCEPT !.debug_mode_bypass = TRUE]

BypassConfigs ==
    { get_preset_config("relaxed"), get_preset_config("moderate"),
      WithBypass(create_custom_preset({}, {}, {}, NoOverrides)),
      WithBypass(create_custom_preset({"medium", "high", "critical"}, {}, {"low"},
                                      NoOverrides)) }

NextBypass ==
    \/ \E cfg \in BypassConfigs, dbg \in BOOLEAN : PermissionManager(cfg, dbg)
          /\ UNCHANGED <<busVars, stopper, clsVars, auditMeta, deleg, ui, chain, awaiting>>
    \/ set_approval_callback /\ UNCHANGED <<busVars, stopper, clsVars, auditMeta, deleg, ui, chain, awaiting>>
    \/ \E t \in Tools : \E inp \in ToolInputs(t) : execute_with_permission(t, inp)
          /\ UNCHANGED <<busVars, stopper, clsVars, auditMeta, deleg, ui, chain, awaiting>>
    \/ \E b \in BOOLEAN : CallbackReturns(b) /\ UNCHANGED <<busVars, stopper, clsVars, auditMeta, deleg, ui, chain, awaiting>>
    \/ CallbackTimeout /\ UNCHANGED <<busVars, stopper, clsVars, auditMeta, deleg, ui, chain, awaiting>>
    \/ CallbackRaises /\ UNCHANGED <<busVars, stopper, clsVars, auditMeta, deleg, ui, chain, awaiting>>
    \/ ExecutorReturns /\ UNCHANGED <<busVars, stopper, clsVars, auditMeta, deleg, ui, chain, awaiting>>
    \/ ExecutorRaises /\ UNCHANGED <<busVars, stopper, clsVars, auditMeta, deleg, ui, chain, awaiting>>

SpecBypass == Init /\ [][NextBypass]_vars

\* The outcome of check_permission comes from the require-approval bucket:
\* no "allow" or "deny" override, and the level is in require_approval and
\* in neither of the buckets tested before it.
InApprovalBucket(tool, level) ==
    /\ OverrideOf(tool) \notin {"allow", "deny"}
    /\ level \in config.require_approval
    /\ level \notin config.auto_deny \cup config.auto_allow

\* C21: with debug_mode_bypass and settings.debug both on, every outcome of
\* the require-approval bucket, at any level, is allowed=True with
\* requires_approval=False, and execute_with_permission invokes the executor
\* without the approval callback being called; with either flag off such an
\* operation requires approval and the executor is invoked only after the
\* approval was given.
C21_DebugBypass ==
    (op.kind = "execute" /\ InApprovalBucket(op.tool, op.result.risk_level)) =>
        IF config.debug_mode_bypass /\ debug
        THEN /\ op.result.allowed /\ ~op.result.requires_approval
             /\ op.cb = "unset" /\ op.appr = "unset"
             /\ op.ran
        ELSE /\ ~op.result.allowed /\ op.result.requires_approval
             /\ op.ran => op.appr = "True"

\* A CRITICAL operation ran under the bypass although an approval callback
\* was installed, and a HIGH one did too.
C21_Witness ==
    /\ config.debug_mode_bypass /\ debug /\ callback
    /\ op.kind = "execute" /\ op.ran /\ op.cb = "unset"
    /\ op.result.risk_level = "critical"
    /\ InApprovalBucket(op.tool, "critical")
    /\ \E i \in 1..Len(audit) :
          audit[i].action = "tool_executed" /\ audit[i].risk = "high"

(***************************************************************************)
(* Properties of the audit trail of approvals, checked under SpecPerm.     *)
(***************************************************************************)
ApprovalOutcomes == {"approval_granted", "approval_denied", "approval_timeout"}

\* The positions of the audit rows with one of the given actions.
RowsWith(actions) == {i \in 1..Len(audit) : audit[i].action \in actions}

\* C22: every request_approval call writes one approval_requested entry
\* followed by exactly one outcome entry (approval_granted, approval_denied
\* or approval_timeout) before it returns: once no request is in flight,
\* every approval_requested row is directly followed by an outcome row, and
\* every outcome row directly follows an approval_requested row.
C22_RequestThenOneOutcome ==
    op.pc # "approving" =>
        /\ \A i \in RowsWith({"approval_requested"}) :
              i + 1 \in RowsWith(ApprovalOutcomes)
        /\ \A i \in RowsWith(ApprovalOutcomes) :
              i - 1 \in RowsWith({"approval_requested"})

\* C23: an exception of the executor is not propagated by
\* execute_with_permission: the call returns (False, str(e)); and a
\* tool_executed entry is written only by a call whose executor returned
\* normally, which returns (True, output).
C23_ExecutorErrorsAreReturned ==
    [][ /\ (op.pc = "executing" /\ op'.pc = "done") =>
              \/ /\ op'.ret = [success |-> TRUE, text |-> "output", detail |-> None]
                 /\ Len(audit') = Len(audit) + 1
                 /\ audit'[Len(audit')].action = "tool_executed"
              \/ /\ op'.ret = [success |-> FALSE, text |-> "RuntimeError",
                               detail |-> None]
                 /\ audit' = audit
        /\ (Len(audit') > Len(audit)
            /\ \E i \in (Len(audit) + 1)..Len(audit') :
                  audit'[i].action = "tool_executed") =>
              op.pc = "executing" /\ op'.ret.success
      ]_vars

\* The executor of an allowed operation raised: the call returned the error
\* text and the audit log holds no tool_executed entry.
C23_Witness ==
    /\ op.kind = "execute" /\ op.pc = "done" /\ op.ran
    /\ op.ret = [success |-> FALSE, text |-> "RuntimeError", detail |-> None]
    /\ RowsWith({"tool_executed"}) = {}

(***************************************************************************)
(* Specification SpecAuditDown: execute_with_permission while the audit    *)
(* store is unavailable: every AuditLog.log call raises (sqlite3 cannot    *)
(* open or write the database).  Nothing is written to the audit log.      *)
(***************************************************************************)
\* The call ends with the exception of the audit write.
AuditError ==
    [success |-> FALSE, text |-> "<raised>", detail |-> "sqlite3.OperationalError"]

\* execute_with_permission(agent, tool, input, executor) with a failing
\* audit store, up to its first suspension.  The first audit write on the
\* path raises and nothing catches it: the permission_check or tool_denied
\* write of check_permission, the approval_requested write of
\* request_approval, or the tool_denied write of execute_with_permission.
\* A path without a write reaches `await executor(**input_data)`.
ExecuteWhileAuditDown(tool, input) ==
    /\ config.name # "none"
    /\ op.pc \in {"idle", "done"}
    /\ opCount < MaxOps
    /\ opCount' = opCount + 1
    /\ LET chk == check_permission(tool, input)
           o == [IdleOp EXCEPT !.kind = "execute", !.tool = tool, !.input = input]
       IN IF chk.rows # <<>>
          THEN op' = [o EXCEPT !.pc = "done", !.ret = AuditError]
          ELSE IF chk.result.requires_approval \/ ~chk.result.allowed
          THEN op' = [o EXCEPT !.pc = "done", !.result = chk.result,
                               !.ret = AuditError]
          ELSE op' = [o EXCEPT !.pc = "executing", !.result = chk.result,
                               !.ran = TRUE]
    /\ UNCHANGED <<config, debug, callback, audit>>

\* The executor returns its output; log_tool_executed raises inside the try
\* block and `except Exception` returns (False, str(e)).
ExecutorReturnsWhileAuditDown ==
    /\ op.pc = "executing"
    /\ op' = [op EXCEPT !.pc = "done",
                        !.ret = [success |-> FALSE,
                                 text |-> "sqlite3.OperationalError",
                                 detail |-> None]]
    /\ UNCHANGED <<config, debug, callback, audit, opCount>>

NextAuditDown ==
    \/ \E pr \in Presets, dbg \in BOOLEAN :
          PermissionManager(get_preset_config(pr), dbg)
          /\ UNCHANGED <<busVars, stopper, clsVars, auditMeta, deleg, ui, chain, awaiting>>
    \/ \E cfg \in CustomConfigs, dbg \in BOOLEAN : PermissionManager(cfg, dbg)
          /\ UNCHANGED <<busVars, stopper, clsVars, auditMeta, deleg, ui, chain, awaiting>>
    \/ \E t \in Tools : \E inp \in ToolInputs(t) : ExecuteWhileAuditDown(t, inp)
          /\ UNCHANGED <<busVars, stopper, clsVars, auditMeta, deleg, ui, chain, awaiting>>
    \/ ExecutorReturnsWhileAuditDown /\ UNCHANGED <<busVars, stopper, clsVars, auditMeta, deleg, ui, chain, awaiting>>
    \/ ExecutorRaises /\ UNCHANGED <<busVars, stopper, clsVars, auditMeta, deleg, ui, chain, awaiting>>

SpecAuditDown == Init /\ [][NextAuditDown]_vars

\* C24: while the audit store is unavailable execute_with_permission fails
\* closed under every preset and risk level: the executor is not invoked
\* and the call does not report success.
C24_AuditDownFailsClosed ==
    op.kind = "execute" => ~op.ran /\ ~op.ret.success

(***************************************************************************)
(* Specification SpecAudit: the AuditLog on its own.  Callers log entries  *)
(* while the clock advances; the queries (get_statistics) read the table.  *)
(* A row is [id, timestamp, action, tool, risk, input_data, approved_by,   *)
(* denial_reason].                                                         *)
(***************************************************************************)
MaxLogCalls == 3    \* AuditLog.log calls in one run
MaxClock == 2       \* readings of the clock

LoggedActions == {"permission_check", "tool_executed", "tool_denied"}
LoggedLevels == {"low", "critical"}

\* The dictionaries handed to log as input_data; <<>> is {} (and None,
\* which log replaces by {}).
InputDicts ==
    { <<>>,
      [k \in {"password", "path"} |->
          IF k = "password" THEN Str("hunter2", 7) ELSE Str("/tmp/a", 6)],
      [k \in {"API_KEY", "content"} |->
          IF k = "API_KEY" THEN Str("sk-1", 501) ELSE Str("long text", 501)],
      [k \in {"content", "count", "monkey"} |->
          IF k = "content" THEN Str("text", 500)
          ELSE IF k = "count" THEN Other("int", "42")
          ELSE Other("dict", "{'password': 'x'}")] }

\* audit_log.log(action, agent, tool, risk_level, input_data): the entry
\* takes the time of the call and the sanitized input, the store gives it
\* its id.
LogCall(action, risk, input_data) ==
    /\ auditMeta.calls < MaxLogCalls
    /\ auditMeta' = [auditMeta EXCEPT !.calls = @ + 1,
                                      !.given = Append(@, input_data)]
    /\ audit' = log(audit, [id |-> 0, timestamp |-> auditMeta.now,
                            action |-> action, tool |-> "read_file",
                            risk |-> risk,
                            input_data |-> sanitize_input(input_data),
                            approved_by |-> None, denial_reason |-> None])
    /\ UNCHANGED <<config, debug, callback, op, opCount>>

\* Time passes: datetime.utcnow() reads later.
Tick ==
    /\ auditMeta.now < MaxClock
    /\ auditMeta' = [auditMeta EXCEPT !.now = @ + 1]
    /\ UNCHANGED permVars

\* AuditAction and the levels get_statistics counts.
AllAuditActions ==
    {"tool_executed", "tool_denied", "approval_requested", "approval_granted",
     "approval_denied", "approval_timeout", "permission_check",
     "preset_changed"}
StatLevels == {"low", "medium", "high", "critical"}

\* SELECT COUNT(*) FROM audit_log [WHERE timestamp >= since]; since = -1
\* is None.
CountSince(rows, since) ==
    Cardinality({i \in 1..Len(rows) : since = -1 \/ rows[i].timestamp >= since})

\* AuditLog.get_statistics(since).  base_query holds no "1=1", so replace
\* leaves each per-action and per-level query equal to the total query;
\* with since given, the appended " AND timestamp >= ?" makes a statement
\* of two placeholders run with one parameter, which sqlite3 rejects.
get_statistics(rows, since) ==
    LET total == CountSince(rows, since)
    IN IF since # -1
       THEN [asked |-> TRUE, since |-> since, raised |-> TRUE,
             total_entries |-> 0, by_action |-> <<>>, by_risk_level |-> <<>>]
       ELSE [asked |-> TRUE, since |-> since, raised |-> FALSE,
             total_entries |-> total,
             by_action |-> [a \in {x \in AllAuditActions : total > 0} |-> total],
             by_risk_level |-> [r \in {x \in StatLevels : total > 0} |-> total]]

\* A caller asks for the statistics.
GetStatistics(since) ==
    /\ auditMeta' = [auditMeta EXCEPT !.stats = get_statistics(audit, since)]
    /\ UNCHANGED permVars

NextAudit ==
    \/ \E a \in LoggedActions, r \in LoggedLevels : LogCall(a, r, <<>>)
          /\ UNCHANGED <<busVars, stopper, clsVars, deleg, ui, chain, awaiting>>
    \/ \E d \in InputDicts : LogCall("tool_executed", "low", d)
          /\ UNCHANGED <<busVars, stopper, clsVars, deleg, ui, chain, awaiting>>
    \/ \E since \in -1..MaxClock : GetStatistics(since)
          /\ UNCHANGED <<busVars, stopper, clsVars, deleg, ui, chain, awaiting>>
    \/ Tick /\ UNCHANGED <<busVars, stopper, clsVars, deleg, ui, chain, awaiting>>

SpecAudit == Init /\ [][NextAudit]_vars

\* C25: the audit log is append-only: a log call adds exactly one row whose
\* id is larger than every earlier id, no step changes or removes an
\* existing row, and after N log calls the table holds N rows.
C25_AppendOnly ==
    /\ [](/\ Len(audit) = auditMeta.calls
          /\ \A i, j \in 1..Len(audit) : i < j => audit[i].id < audit[j].id)
    /\ [][ /\ Len(audit') >= Len(audit)
           /\ SubSeq(audit', 1, Len(audit)) = audit
           /\ auditMeta'.calls = auditMeta.calls + 1 =>
                 /\ Len(audit') = Len(audit) + 1
                 /\ \A i \in 1..Len(audit) : audit'[Len(audit')].id > audit[i].id
         ]_vars

\* Three entries have been logged and the table holds them in the order of
\* the calls.
C25_Witness ==
    /\ auditMeta.calls = 3
    /\ Len(audit) = 3
    /\ audit[1].action = "tool_denied" /\ audit[3].action = "tool_executed"

\* The rows of `rows` with the given action.
CountRows(rows, action) ==
    Cardinality({i \in 1..Len(rows) : rows[i].action = action})

\* The step is an execute_with_permission call that returns denied with no
\* approval round-trip.
DeniedOutright ==
    /\ op.pc \in {"idle", "done"}
    /\ opCount' = opCount + 1
    /\ op'.kind = "execute" /\ op'.pc = "done"
    /\ ~op'.result.allowed /\ ~op'.result.requires_approval

\* C26: every execute_with_permission call denied without an approval
\* round-trip (override "deny", or a risk level in the auto-deny bucket)
\* writes exactly one tool_denied audit entry.
C26_OneDenialEntry ==
    [][DeniedOutright =>
          CountRows(audit', "tool_denied") = CountRows(audit, "tool_denied") + 1]_vars

\* C27: every row holds the input it was given with the value of each key
\* whose name contains password, secret, token or key (in any case) replaced
\* by the redaction marker, every other string longer than 500 characters
\* cut to its first 500 characters and the truncation marker, and every
\* other value unchanged.
C27_InputIsSanitized ==
    \A i \in 1..Len(audit) :
        LET given == auditMeta.given[i]
            stored == audit[i].input_data
        IN /\ DOMAIN stored = DOMAIN given
           /\ \A key \in DOMAIN given :
                 IF \E w \in {"password", "secret", "token", "key"} :
                        Contains(Chars(w), Lower(Chars(key)))
                 THEN stored[key] = Str("[REDACTED]", 10)
                 ELSE IF given[key].type = "str" /\ given[key].len > 500
                 THEN /\ stored[key].cut /\ stored[key].text = given[key].text
                      /\ stored[key].len = 500 + MarkerLen
                 ELSE stored[key] = given[key]

\* Rows have been written from {password, path}, which keeps the path and
\* redacts the password, and from {API_KEY, content} with long values.
C27_Witness ==
    \E i, j \in 1..Len(audit) :
        /\ DOMAIN auditMeta.given[i] = {"password", "path"}
        /\ audit[i].input_data["path"] = Str("/tmp/a", 6)
        /\ audit[i].input_data["password"] = REDACTED
        /\ DOMAIN auditMeta.given[j] = {"API_KEY", "content"}
        /\ audit[j].input_data["API_KEY"] = REDACTED
        /\ audit[j].input_data["content"].cut

\* C28: get_statistics(since) returns total_entries = the number of rows
\* with timestamp >= since (all rows without since), by_action[a] and
\* by_risk_level[r] = the number of those rows with action a and risk level
\* r, so the by_action counts sum to total_entries.
C28_StatisticsCountRows ==
    [][auditMeta'.stats # auditMeta.stats =>
         LET st == auditMeta'.stats
             Sel == {i \in 1..Len(audit) :
                        st.since = -1 \/ audit[i].timestamp >= st.since}
         IN /\ ~st.raised
            /\ st.total_entries = Cardinality(Sel)
            /\ \A a \in AllAuditActions :
                  LET n == Cardinality({i \in Sel : audit[i].action = a})
                  IN IF n = 0 THEN a \notin DOMAIN st.by_action
                     ELSE a \in DOMAIN st.by_action /\ st.by_action[a] = n
            /\ \A r \in StatLevels :
                  LET n == Cardinality({i \in Sel : audit[i].risk = r})
                  IN IF n = 0 THEN r \notin DOMAIN st.by_risk_level
                     ELSE r \in DOMAIN st.by_risk_level /\ st.by_risk_level[r] = n
      ]_vars

(***************************************************************************)
(* Specification SpecDelegate: delegate calls against the event bus.  The  *)
(* bus is started at some point; calls made before that publish nothing.   *)
(***************************************************************************)
RoutingOutcomes == {"returned", "raised"}

NextDelegate ==
    \/ StartOnce /\ UNCHANGED <<permVars, stopper, clsVars, auditMeta, deleg, ui, chain, awaiting>>
    \/ \E d \in DelegationIds, rid \in RequestIds, o \in RoutingOutcomes :
          delegate(d, rid, o)
          /\ UNCHANGED <<permVars, stopper, clsVars, auditMeta, ui, chain, awaiting>>
    \/ \E i \in 1..Len(putters), o \in RoutingOutcomes : DelegatePutResume(i, o)
          /\ UNCHANGED <<permVars, stopper, clsVars, auditMeta, ui, chain, awaiting>>
    \/ \E i \in 1..Len(putters), o \in RoutingOutcomes : DelegatePutTimeout(i, o)
          /\ UNCHANGED <<permVars, stopper, clsVars, auditMeta, ui, chain, awaiting>>
    \/ \E rid \in RequestIds : cancel_delegation(rid)
          /\ UNCHANGED <<permVars, stopper, clsVars, auditMeta, ui, chain, awaiting>>
    \/ LoopTake /\ UNCHANGED <<permVars, stopper, clsVars, auditMeta, deleg, ui, chain, awaiting>>

SpecDelegate == Init /\ [][NextDelegate]_vars

InFlight == {d \in DelegationIds : deleg.d[d].pc \in {"pub_start", "pub_end"}}

\* C29: a delegate call removes its request_id from the active-delegations
\* map on every exit path: when a call returns its request_id is not in the
\* map, when no call is in flight active_delegation_count is 0, and the
\* count never exceeds the number of calls in flight.
C29_ActiveDelegationsAreInFlight ==
    /\ [](/\ active_delegation_count <= Cardinality(InFlight)
          /\ InFlight = {} => active_delegation_count = 0)
    /\ [][\A d \in DelegationIds :
             deleg.d[d].pc # "done" /\ deleg'.d[d].pc = "done"
                => deleg'.d[d].rid \notin deleg'.active]_vars

\* Two calls are in flight with their requests in the map, after a call
\* whose routing raised and one whose routing returned have come back.
C29_Witness ==
    /\ active_delegation_count = 1
    /\ Cardinality(InFlight) = 1
    /\ \E d, e \in DelegationIds :
          /\ deleg.d[d].pc = "done" /\ deleg.d[d].routed = "raised"
          /\ deleg.d[e].pc = "done" /\ deleg.d[e].routed = "returned"

\* The types of the events call d handed to publish, in order.
PublishedTypes(d) == [i \in 1..Len(deleg.d[d].pub) |-> deleg.d[d].pub[i].type]

\* The events the bus was handed: enqueued, dropped, or in a suspended put.
HandedToBus ==
    {enqLog[i] : i \in 1..Len(enqLog)} \cup {e.id : e \in dropLog}
        \cup {putters[i].ev.id : i \in 1..Len(putters)}

ProgressValues == {NoProgress, -50, 50, 150, BadProgress}

\* The events dispatched: [type, progress].
StreamerInputs ==
    ({"lead.progress"} \X ProgressValues)
        \cup ({"worker.progress"} \X {150})
        \cup ({"tool.progress"} \X {NoProgress, 150})
        \cup ({"lead.complete", "approval.request", "approval.denied",
               "worker.error", "system.error",
               "orchestrator.delegate", "memory.store", "lead.assign",
               "system.startup", "system.shutdown"} \X {NoProgress})

NextStreamer ==
    \/ StreamerStart
    \/ StreamerTick
    \/ \E in \in StreamerInputs : StreamerDispatch(in[1], in[2])

SpecStreamer == Init /\ [][NextStreamer]_vars

\* The entries of the log, by position.
UiLog == {[i |-> i, e |-> ui.log[i]] : i \in 1..Len(ui.log)}

\* C32: the streamer passes to the broadcast sink only events whose type is
\* in its allow-list; events of orchestrator.*, memory.*, lead.assign,
\* system.startup and system.shutdown are never broadcast.
C32_OnlyAllowListedEventsAreBroadcast ==
    \A x \in UiLog :
        /\ x.e.sent => x.e.type \in UI_RELEVANT_EVENTS
        /\ x.e.type \in {"orchestrator.delegate", "orchestrator.response",
                         "orchestrator.error", "memory.store",
                         "memory.recall", "memory.forget", "lead.assign",
                         "system.startup", "system.shutdown"}
              => ~x.e.handled /\ ~x.e.sent

\* With the streamer started, an allow-listed event was broadcast and
\* events of other types were dispatched after it.
C32_Witness ==
    \E x, y, z \in UiLog :
        /\ x.i < y.i /\ y.i < z.i
        /\ x.e.type = "lead.complete" /\ x.e.sent
        /\ y.e.type = "orchestrator.delegate" /\ ~y.e.sent
        /\ z.e.type = "system.shutdown" /\ ~z.e.sent

C34_PriorityEventsAreNeverLimited ==
    \A x \in UiLog :
        (/\ x.e.handled
         /\ x.e.type \in {"approval.request", "approval.granted",
                          "approval.denied", "worker.complete",
                          "lead.complete", "system.error", "tool.error",
                          "worker.error", "lead.error"})
        => x.e.sent

\* Two lead.complete events and an approval.denied event arrived in the
\* same millisecond and all three were broadcast.
C34_Witness ==
    /\ Len(ui.log) = 3
    /\ ui.log[1].type = "lead.complete" /\ ui.log[2].type = "lead.complete"
    /\ ui.log[3].type = "approval.denied"
    /\ \A i \in 1..3 : ui.log[i].sent /\ ui.log[i].at = ui.log[1].at

\* C35: every event the streamer forwards that carries a progress field has
\* that field within [0, 1], for every allow-listed event type and every
\* input value.
C35_ForwardedProgressInRange ==
    \A x \in UiLog :
        (x.e.sent /\ x.e.out # NoProgress) => (x.e.out >= 0 /\ x.e.out <= Full)

(***************************************************************************)
(* Specification SpecChain: SpecMiddleware with the middleware invoked for *)
(* each dispatched event recorded.                                         *)
(***************************************************************************)
\* The loop takes an event for dispatch; the invocations of the pipeline
\* are recorded.
LoopTakeTraced ==
    /\ LoopTake
    /\ chain' = Append(chain,
                       [id |-> QueueGet.ev.id, mw |-> middleware,
                        handlers |-> Cardinality(get_handlers(QueueGet.ev.type)),
                        calls |-> dispatch_calls(middleware,
                                      get_handlers(QueueGet.ev.type))])

NextChain ==
    \/ start /\ UNCHANGED <<permVars, stopper, clsVars, auditMeta, deleg, ui, chain, awaiting>>
    \/ \E p \in MiddlewarePatterns : subscribe(p, Handler("noop", "external"))
          /\ UNCHANGED <<permVars, stopper, clsVars, auditMeta, deleg, ui, chain, awaiting>>
    \/ \E k \in MiddlewareKinds : use(k)
          /\ UNCHANGED <<permVars, stopper, clsVars, auditMeta, deleg, ui, chain, awaiting>>
    \/ \E t \in MiddlewareEventTypes : Produce(t)
          /\ UNCHANGED <<permVars, stopper, clsVars, auditMeta, deleg, ui, chain, awaiting>>
    \/ LoopTakeTraced /\ UNCHANGED <<permVars, stopper, clsVars, auditMeta, deleg, ui, awaiting>>
    \/ \E s \in subs : call_handler(s)
          /\ UNCHANGED <<permVars, stopper, clsVars, auditMeta, deleg, ui, chain, awaiting>>
    \/ DispatchEnd
          /\ UNCHANGED <<permVars, stopper, clsVars, auditMeta, deleg, ui, chain, awaiting>>

SpecChain == Init /\ [][NextChain]_vars

\* C36: for an event with at least one matching handler, when every
\* installed middleware calls next, each installed middleware is invoked
\* exactly once for the event, in registration order, and once the dispatch
\* has ended each matching handler has been invoked.
C36_EachMiddlewareOnceInOrder ==
    \A i \in 1..Len(chain) :
        LET e == chain[i] IN
        (e.handlers > 0 /\ \A k \in 1..Len(e.mw) : e.mw[k] = "pass") =>
            /\ e.calls = [k \in 1..Len(e.mw) |-> k]
            /\ cur.id # e.id =>
                  \A m \in matched : m[1] = e.id => m \in invoked

\* C37: every event dispatched by the bus passes through the installed
\* middleware chain, whether or not any subscription matches its type: with
\* middleware installed, the first middleware is invoked for the event.
C37_EveryEventPassesTheChain ==
    \A i \in 1..Len(chain) :
        chain[i].mw # <<>> =>
            chain[i].calls # <<>> /\ chain[i].calls[1] = 1

(***************************************************************************)
(* Specification SpecShared: one AgentCommunicator, hence one correlation  *)
(* id, issues a delegate_to_lead and, while it is outstanding or after it, *)
(* an assign_to_worker; lead and worker handlers answer the requests.      *)
(***************************************************************************)
\* AgentCommunicator.correlation_id
SharedCorrelationId == 1

\* AgentCommunicator.delegate_to_lead: correlation_id=self.correlation_id
CommDelegateToLead == delegate_to_lead(1, SharedCorrelationId)

\* AgentCommunicator.assign_worker: correlation_id=self.correlation_id,
\* source=self.agent_name
CommAssignWorker == assign_to_worker(2, SharedCorrelationId, "lead")

NextShared ==
    \/ start /\ UNCHANGED <<permVars, stopper, clsVars, auditMeta, deleg, ui, chain, awaiting>>
    \/ \E sh \in RpcSubscriptions : subscribe(sh[1], sh[2])
          /\ UNCHANGED <<permVars, stopper, clsVars, auditMeta, deleg, ui, chain, awaiting>>
    \/ CommDelegateToLead /\ UNCHANGED <<permVars, stopper, clsVars, auditMeta, deleg, ui, chain, awaiting>>
    \/ CommAssignWorker /\ UNCHANGED <<permVars, stopper, clsVars, auditMeta, deleg, ui, chain, awaiting>>
    \/ LoopTake /\ UNCHANGED <<permVars, stopper, clsVars, auditMeta, deleg, ui, chain, awaiting>>
    \/ \E s \in subs : call_handler(s) /\ UNCHANGED <<permVars, stopper, clsVars, auditMeta, deleg, ui, chain, awaiting>>
    \/ DispatchEnd /\ UNCHANGED <<permVars, stopper, clsVars, auditMeta, deleg, ui, chain, awaiting>>
    \/ \E i \in 1..Len(putters) : PutResume(i) /\ UNCHANGED <<permVars, stopper, clsVars, auditMeta, deleg, ui, chain, awaiting>>
    \/ \E i \in 1..Len(putters) : PutTimeout(i) /\ UNCHANGED <<permVars, stopper, clsVars, auditMeta, deleg, ui, chain, awaiting>>
    \/ \E c \in CallIds : CallReturn(c) /\ UNCHANGED <<permVars, stopper, clsVars, auditMeta, deleg, ui, chain, awaiting>>
    \/ \E c \in CallIds : CallTimeout(c) /\ UNCHANGED <<permVars, stopper, clsVars, auditMeta, deleg, ui, chain, awaiting>>
    \/ \E c \in CallIds : CallCleanup(c) /\ UNCHANGED <<permVars, stopper, clsVars, auditMeta, deleg, ui, chain, awaiting>>

SpecShared == Init /\ [][NextShared]_vars

\* Every call that timed out saw no event of its own response types under
\* its correlation id dispatched before the timeout ran out.
OwnResponseIsReturned ==
    \A c \in CallIds :
        calls[c].via = "timeout" =>
            \A i \in 1..calls[c].toAt : i \notin Terminals(c)

\* A call that returns leaves every pending entry that is not its own as it
\* was.
CleanupRemovesOwnEntryOnly ==
    \A c \in CallIds :
        (calls[c].pc # "done" /\ calls'[c].pc = "done") =>
            \A k \in CorrIds : pending[k].call # c => pending'[k] = pending[k]

\* C38: when a delegate_to_lead and an assign_to_worker issued under one
\* shared correlation id are outstanding at once, each call still returns
\* the event of its own response types dispatched before its timeout, and
\* the cleanup of one call removes only its own pending entry.
C38_SharedCorrelationIdCallsStayApart ==
    [](OwnResponseIsReturned) /\ [][CleanupRemovesOwnEntryOnly]_vars


(***************************************************************************)
(* Specification SpecNested: a lead handler, run by the consumer loop for  *)
(* an orchestrator.delegate event, awaits assign_to_worker (and so         *)
(* publish_and_wait) before it returns; a worker handler is subscribed to  *)
(* lead.assign, and producers publish worker.complete responses to the     *)
(* outstanding calls with publish.  assign_to_worker is also called from   *)
(* outside the loop, by a task of its own.  The handlers are subscribed    *)
(* before the first event is published.                                    *)
(***************************************************************************)
NestedSubscriptions ==
    { <<"orchestrator.delegate", Handler("assigner", "code_lead")>>,
      <<"lead.assign", Handler("worker_complete", "programmer")>> }

\* _call_handler runs a handler that awaits assign_to_worker: the handler
\* task is suspended in publish_and_wait and stays among the tasks gather
\* waits for.
HandlerAwait(s, c) ==
    /\ loop = "dispatch"
    /\ s \in todo
    /\ s.handler.kind = "assigner"
    /\ \A d \in CallIds : awaiting[d] # [sub |-> s.id, ev |-> cur.id]
    /\ assign_to_worker(c, generate_correlation_id, s.handler.name)
    /\ awaiting' = [awaiting EXCEPT ![c] = [sub |-> s.id, ev |-> cur.id]]

\* assign_to_worker has returned to the handler, which returns in turn.
HandlerReturn(s, c) ==
    /\ loop = "dispatch"
    /\ s \in todo
    /\ awaiting[c] = [sub |-> s.id, ev |-> cur.id]
    /\ calls[c].pc = "done"
    /\ todo' = todo \ {s}
    /\ invoked' = invoked \cup {<<cur.id, s.id>>}
    /\ stats' = Bump(stats, "handlers_called")
    /\ UNCHANGED <<subs, nextSub, middleware, queue, putters, history, pending,
                   futs, running, loop, cur, curSubs, calls, nextId, enqLog,
                   dispLog, dropLog, errBase, matched, allSubs, awaiting>>

NextNested ==
    \/ start /\ UNCHANGED <<permVars, stopper, clsVars, auditMeta, deleg, ui, chain, awaiting>>
    \/ \E sh \in NestedSubscriptions : nextId = 0 /\ subscribe(sh[1], sh[2])
          /\ UNCHANGED <<permVars, stopper, clsVars, auditMeta, deleg, ui, chain, awaiting>>
    \/ ExtPublish("orchestrator.delegate", "orchestrator", NoCid, Absent, Absent)
          /\ UNCHANGED <<permVars, stopper, clsVars, auditMeta, deleg, ui, chain, awaiting>>
    \/ \E c \in CallIds :
          /\ calls[c].pc \in {"putting", "waiting"}
          /\ ExtPublish("worker.complete", "programmer", calls[c].cid, "done", Absent)
          /\ UNCHANGED <<permVars, stopper, clsVars, auditMeta, deleg, ui, chain, awaiting>>
    \/ \E c \in CallIds : assign_to_worker(c, generate_correlation_id, "lead")
          /\ UNCHANGED <<permVars, stopper, clsVars, auditMeta, deleg, ui, chain, awaiting>>
    \/ LoopTake /\ UNCHANGED <<permVars, stopper, clsVars, auditMeta, deleg, ui, chain, awaiting>>
    \/ \E s \in subs, c \in CallIds : HandlerAwait(s, c) /\ UNCHANGED <<permVars, stopper, clsVars, auditMeta, deleg, ui, chain>>
    \/ \E s \in subs, c \in CallIds : HandlerReturn(s, c) /\ UNCHANGED <<permVars, stopper, clsVars, auditMeta, deleg, ui, chain>>
    \/ \E s \in subs : s.handler.kind # "assigner" /\ call_handler(s)
          /\ UNCHANGED <<permVars, stopper, clsVars, auditMeta, deleg, ui, chain, awaiting>>
    \/ DispatchEnd /\ UNCHANGED <<permVars, stopper, clsVars, auditMeta, deleg, ui, chain, awaiting>>
    \/ \E i \in 1..Len(putters) : PutResume(i) /\ UNCHANGED <<permVars, stopper, clsVars, auditMeta, deleg, ui, chain, awaiting>>
    \/ \E i \in 1..Len(putters) : PutTimeout(i) /\ UNCHANGED <<permVars, stopper, clsVars, auditMeta, deleg, ui, chain, awaiting>>
    \/ \E c \in CallIds : CallReturn(c) /\ UNCHANGED <<permVars, stopper, clsVars, auditMeta, deleg, ui, chain, awaiting>>
    \/ \E c \in CallIds : CallTimeout(c) /\ UNCHANGED <<permVars, stopper, clsVars, auditMeta, deleg, ui, chain, awaiting>>
    \/ \E c \in CallIds : CallCleanup(c) /\ UNCHANGED <<permVars, stopper, clsVars, auditMeta, deleg, ui, chain, awaiting>>

SpecNested == Init /\ [][NextNested]_vars

\* Every handler gathered for an event dispatched so far has returned.
HandlersReturned ==
    /\ todo = {}
    /\ matched \subseteq invoked
    /\ \A i \in 1..Len(putters) : putters[i].owner.kind # "handler"

\* A call awaited inside a handler run by the loop was not resolved, and
\* when it has returned it returned None at its timeout.
AwaitedInHandlerTimesOut ==
    \A c \in CallIds :
        awaiting[c].sub # 0 =>
            /\ futs[c].st # "done"
            /\ calls[c].via \in {"", "timeout"}
            /\ Returned(c) =>
                  /\ calls[c].resp = NoEvent
                  /\ calls[c].res = [success |-> FALSE, result |-> None,
                                     error |-> "Worker timed out"]

\* C39: the consumer loop dispatches queued events strictly one at a time:
\* it starts dispatching the next event only when all handlers of the
\* current event have returned; so a publish_and_wait awaited inside a
\* handler run by the loop is never resolved by a response published with
\* publish, and returns None at its timeout.
C39_OneDispatchAtATime ==
    /\ [][dispLog' # dispLog => HandlersReturned]_vars
    /\ [](AwaitedInHandlerTimesOut)

\* The timeout of an assign_to_worker awaited inside a lead handler has run
\* out while the dispatch of the handled event is still open and the
\* matching worker.complete, published with publish, sits in the queue.
C39_Witness ==
    \E c \in CallIds :
        /\ awaiting[c].sub # 0
        /\ calls[c].pc = "timedout"
        /\ loop = "dispatch" /\ cur.id = awaiting[c].ev
        /\ \E i \in 1..Len(queue) :
              /\ queue[i].cid = calls[c].cid
              /\ queue[i].type \in ResponseTypes(calls[c].kind)
              /\ queue[i].source = "programmer"

(***************************************************************************)
(* Specification SpecEarly: calls wait for worker.complete while the       *)
(* pipeline holds middleware that filters events out and while no          *)
(* subscription, or one behind the filter, matches the response.  The      *)
(* middleware is installed before the first event is published, the        *)
(* handlers are subscribed at any time, and the callers and producers      *)
(* publish while the queue has room.                                       *)
(***************************************************************************)
EarlyKinds == {"pass", "block"}
EarlyPatterns == {"worker.*"}

NextEarly ==
    \/ start /\ UNCHANGED <<permVars, stopper, clsVars, auditMeta, deleg, ui, chain, awaiting>>
    \/ \E p \in EarlyPatterns : subscribe(p, Handler("noop", "external"))
          /\ UNCHANGED <<permVars, stopper, clsVars, auditMeta, deleg, ui, chain, awaiting>>
    \/ \E k \in EarlyKinds : nextId = 0 /\ use(k) /\ UNCHANGED <<permVars, stopper, clsVars, auditMeta, deleg, ui, chain, awaiting>>
    \/ \E c \in CallIds :
          /\ ~QueueFull
          /\ assign_to_worker(c, generate_correlation_id, "lead")
          /\ UNCHANGED <<permVars, stopper, clsVars, auditMeta, deleg, ui, chain, awaiting>>
    \/ \E c \in CallIds :
          /\ ~QueueFull
          /\ calls[c].pc = "waiting"
          /\ ExtPublish("worker.complete", "programmer", calls[c].cid, "done", Absent)
          /\ UNCHANGED <<permVars, stopper, clsVars, auditMeta, deleg, ui, chain, awaiting>>
    \/ LoopTakeTraced /\ UNCHANGED <<permVars, stopper, clsVars, auditMeta, deleg, ui, awaiting>>
    \/ \E s \in subs : call_handler(s) /\ UNCHANGED <<permVars, stopper, clsVars, auditMeta, deleg, ui, chain, awaiting>>
    \/ DispatchEnd /\ UNCHANGED <<permVars, stopper, clsVars, auditMeta, deleg, ui, chain, awaiting>>
    \/ \E c \in CallIds : CallReturn(c) /\ UNCHANGED <<permVars, stopper, clsVars, auditMeta, deleg, ui, chain, awaiting>>
    \/ \E c \in CallIds : CallTimeout(c) /\ UNCHANGED <<permVars, stopper, clsVars, auditMeta, deleg, ui, chain, awaiting>>
    \/ \E c \in CallIds : CallCleanup(c) /\ UNCHANGED <<permVars, stopper, clsVars, auditMeta, deleg, ui, chain, awaiting>>

SpecEarly == Init /\ [][NextEarly]_vars

\* The event the loop takes for dispatch in this step.
Taken == dispLog'[Len(dispLog')]

\* C40: history recording and pending-response resolution come before the
\* middleware chain and do not depend on subscriptions: an event taken for
\* dispatch is appended to the history and resolves the pending
\* publish_and_wait it matches, also when a middleware filters it out and
\* when no handler matches it.
C40_HistoryAndPendingBeforeTheChain ==
    [][dispLog' # dispLog =>
          /\ history' # <<>> /\ history'[Len(history')] = Taken
          /\ \A c \in CallIds :
                (/\ futs[c].st = "pending"
                 /\ calls[c].cid = Taken.cid
                 /\ Taken.type \in ResponseTypes(calls[c].kind))
                => futs'[c] = [st |-> "done", ev |-> Taken]
      ]_vars

\* One call has returned a response that a matching handler never saw
\* because a middleware filtered the event out, another has returned a
\* response that no subscription matched, and the later of the two is the
\* newest entry of the history.
C40_Witness ==
    \E c, d \in CallIds, i, j \in 1..Len(chain) :
        /\ Resolved(c) /\ chain[i].id = calls[c].resp.id
        /\ chain[i].handlers > 0
        /\ \E k \in 1..Len(chain[i].mw) : chain[i].mw[k] = "block"
        /\ \A pr \in invoked : pr[1] # chain[i].id
        /\ Resolved(d) /\ chain[j].id = calls[d].resp.id
        /\ chain[j].handlers = 0
        /\ history # <<>>
        /\ history[Len(history)] \in {calls[c].resp, calls[d].resp}

=============================================================================
